---- MODULE Spec2Model ----
(***************************************************************************)
(* A model of caf::local_actor (libcaf_core/src/local_actor.cpp): the      *)
(* mailbox and its two-segment cache, the resume loop, enqueue and launch, *)
(* the behavior stack, the response tables, cleanup, and the credit ledger *)
(* of flow-controlled sources.                                             *)
(***************************************************************************)
EXTENDS Integers, Sequences, FiniteSets, TLC

\* ------------------------------------------------------------------ bounds
\* number of envelopes external senders enqueue in one behaviour
MaxMsgs == 3
\* the max_throughput argument handed to resume by the execution unit
MaxThroughput == 2
\* number of cleanup calls made on one actor
MaxCleanupCalls == 2
\* largest newly_available passed to one grant_credit call, and the most
\* credit such calls without a cause add in one behaviour
MaxGrant == 3
\* number of envelopes enqueued in one behaviour of the pull specification
MaxPullMsgs == 5
\* number of envelopes enqueued in one behaviour of the request specification
MaxRespMsgs == 4
\* number of envelopes enqueued in one behaviour of the timeout specification
MaxTimeoutMsgs == 4
\* number of envelopes enqueued in one behaviour of the exception specification
MaxExcMsgs == 3
\* number of envelopes enqueued in one behaviour of the sys-message specification
MaxSysMsgs == 3
\* number of envelopes enqueued in one behaviour of the skip specification
MaxSkipMsgs == 3
\* number of envelopes handed to exec_single_event in one behaviour
MaxSingleMsgs == 3

VARIABLES
  \* --- mailbox (detail::single_reader_queue) and its cache
  mstate,            \* "open" (reader running), "blocked", "closed"
  mbox,              \* envelopes enqueued and not yet popped, oldest first
  first,             \* cache, first segment  (reordered front)
  second,            \* cache, second segment (skipped backlog)
  \* --- flags of the actor
  prio,              \* is_priority_aware()
  detached,          \* is_detached()
  launched,          \* launch() has been called
  initialized,       \* is_initialized()
  terminated,        \* is_terminated()
  cleaned_up,        \* is_cleaned_up()
  destroyed,         \* on_destroy() has run
  revives,           \* the actor's class overrides on_exit() to set a behavior
  exit_throws,       \* the override of on_exit() throws when first called
  \* --- actor-local state
  bhvr_stack,        \* sequence of behaviors, back = top
  awaited_responses, \* sequence of <<request number, behavior>>, front first
  multiplexed_responses, \* set of <<request number, behavior>>
  last_request_id,
  generators,        \* set of sinks with an open stream
  subscriptions,     \* set of joined groups
  fail_state,
  current_element,   \* id of the envelope in current_element_, 0 = null
  has_timeout,
  timeout_id,
  timers,            \* timeout ids handed to delayed_send and not yet delivered
  \* --- the execution unit and the position of resume
  pending,           \* submissions of this actor waiting at an execution unit
  pc,                \* "idle", "loop", "try_block", "final_block"
  iter,              \* loop counter i of resume
  handled_msgs,
  \* --- the private thread of a detached actor
  pt_state,          \* "none", "active", "await_resume_or_shutdown", "shutdown_requested"
  pt_pc,             \* "none", "top", "again", "resume", "await", "exited"
  resume_result,     \* what the last call of resume returned, or "none"
  \* --- observations
  nextId,            \* id of the next envelope created
  invoked,           \* envelope id -> number of invocations that consumed it
  bounces,           \* sequence of [id, reason]: synthetic error responses
  replies,           \* sequence of [id, what]: responses sent by handlers
  on_exit_calls,
  cleanup_calls,
  shutdown_signals,
  unsubscribes,
  fired,             \* the response and timeout handlers run and the
                     \* responses dropped as expired so far, in order
  caught,            \* the exceptions resume caught, in order
  enq_result,        \* the mailbox result the last enqueue observed
  enq_mt,            \* the id category of the envelope of the last enqueue
  \* --- the credit ledger of flow-controlled sources
  open_credit,       \* open_credit_
  low_watermark,     \* low_watermark_
  max_credit,        \* max_credit_
  sources,           \* sources_ in iteration order: sequence of [addr, credit]
  alive,             \* source actors a strong pointer can still be obtained to
  exited,            \* source actors that have terminated
  emitted,           \* (sys, get, n) sent by the last operation: [to, n]
  crashed,           \* the process stopped in undefined behaviour
  surplus,           \* credit passed to grant_credit calls without a cause
                     \* that no removed source had held
  ledger_call,       \* the last operation on the ledger: [op, n, cause]
  allowance,         \* source -> credit it was sent and has not used yet
  in_transit,        \* source -> its flow-controlled envelopes not handled yet
  \* --- observations of next_message
  returned,          \* the envelopes next_message returned, in order
  cycle,             \* envelope id -> pull cycle that moved it into the cache
  cycles,            \* number of pull cycles so far
  \* --- the worker object of the private thread and the actor's destructor
  self_destroyed,    \* private_thread::self_destroyed_
  detached_threads,  \* the actor system's count of detached threads
  destructed         \* ~local_actor() has run

mailboxVars == <<mstate, mbox, first, second>>
flagVars == <<prio, detached, launched, initialized, terminated, cleaned_up,
              destroyed, revives, exit_throws>>
localVars == <<bhvr_stack, awaited_responses, multiplexed_responses,
               last_request_id, generators, subscriptions, fail_state,
               current_element, has_timeout, timeout_id, timers>>
schedVars == <<pending, pc, iter, handled_msgs, pt_state, pt_pc, resume_result>>
obsVars == <<nextId, invoked, bounces, replies, on_exit_calls, cleanup_calls,
             shutdown_signals, unsubscribes, fired, caught>>
histVars == <<enq_result, enq_mt>>
ledgerVars == <<open_credit, low_watermark, max_credit, sources, alive, exited,
                emitted, crashed, surplus, ledger_call, allowance,
                in_transit>>
pullVars == <<returned, cycle, cycles>>
threadVars == <<self_destroyed, detached_threads, destructed>>
sideVars == <<ledgerVars, pullVars, threadVars>>
actorVars == <<mailboxVars, flagVars, localVars, schedVars, obsVars, histVars>>

\* ---------------------------------------------------------------- envelopes
\* An envelope (mailbox_element): id identifies the element, pl is the
\* payload, mt the category of its message id, hp its priority flag, rid the
\* request number of a request or response id, tid the id a timeout_msg
\* carries.
Env(i, p, m, h, r, t) == [id |-> i, pl |-> p, mt |-> m, hp |-> h, rid |-> r, tid |-> t]

is_response(e) == e.mt = "response"

is_request(e) == e.mt = "request"

is_high_priority(e) == e.hp

\* ------------------------------------------------------------------ mailbox
\* single_reader_queue::enqueue: the result the writer observes.
MbEnqueueResult(ms) ==
  IF ms = "closed" THEN "queue_closed"
  ELSE IF ms = "blocked" THEN "unblocked_reader"
  ELSE "success"

\* single_reader_queue::try_block: no message observed -> mark blocked.
MbCanBlock(ms, q) == (ms = "open" /\ q = <<>>) \/ ms = "blocked"

\* Insert x before position p (1 .. Len(c) + 1) of c.
InsertAt(c, p, x) == SubSeq(c, 1, p - 1) \o <<x>> \o SubSeq(c, p, Len(c))

\* A variant of DrainMailbox that inserts the low priority envelopes at the
\* insert point of the high priority ones.
RECURSIVE DrainMailboxLowAtInsertPoint(_, _, _)
DrainMailboxLowAtInsertPoint(c, hp_pos, q) ==
  IF q = <<>> THEN c
  ELSE LET tmp == Head(q)
           c2 == InsertAt(c, hp_pos, tmp)
       IN DrainMailboxLowAtInsertPoint(c2, hp_pos + 1, Tail(q))

\* A variant of DrainMailbox that never moves the insert point back onto the
\* first low priority envelope.
RECURSIVE DrainMailboxNoAdjust(_, _, _)
DrainMailboxNoAdjust(c, hp_pos, q) ==
  IF q = <<>> THEN c
  ELSE LET tmp == Head(q)
           e == Len(c) + 1
           c2 == InsertAt(c, IF is_high_priority(tmp) THEN hp_pos ELSE e, tmp)
           moved == IF is_high_priority(tmp) THEN hp_pos + 1
                    ELSE IF hp_pos = e THEN e + 1 ELSE hp_pos
       IN DrainMailboxNoAdjust(c2, moved, Tail(q))

\* A variant of DrainMailbox that inserts every high priority envelope at
\* the front of the first segment.
RECURSIVE DrainMailboxAtFront(_, _, _)
DrainMailboxAtFront(c, hp_pos, q) ==
  IF q = <<>> THEN c
  ELSE LET tmp == Head(q)
           e == Len(c) + 1
           c2 == InsertAt(c, IF is_high_priority(tmp) THEN 1 ELSE e, tmp)
       IN DrainMailboxAtFront(c2, hp_pos, Tail(q))

\* The while loop of next_message: q is what try_pop still returns, c the
\* first segment, hp_pos the index of the high priority insert point
\* (Len(c) + 1 is first_end).
RECURSIVE DrainMailbox(_, _, _)
DrainMailbox(c, hp_pos, q) ==
  IF q = <<>> THEN c
  ELSE LET tmp == Head(q)
           e == Len(c) + 1
           c2 == InsertAt(c, IF is_high_priority(tmp) THEN hp_pos ELSE e, tmp)
           \* the iterator hp_pos keeps naming the same element
           moved == IF is_high_priority(tmp) THEN hp_pos + 1
                    ELSE IF hp_pos = e THEN e + 1 ELSE hp_pos
           hp2 == IF hp_pos = e /\ ~is_high_priority(tmp) THEN moved - 1 ELSE moved
       IN DrainMailbox(c2, hp2, Tail(q))

\* The first segment after the reassembly step of next_message.
Reassemble(c, q) ==
  IF c = <<>> \/ ~is_high_priority(Head(c)) THEN DrainMailbox(c, 1, q) ELSE c

\* The mailbox after the reassembly step of next_message.
Drained(c, q) ==
  IF c = <<>> \/ ~is_high_priority(Head(c)) THEN <<>> ELSE q

\* next_message: [ptr, first, mbox]; ptr = <<>> stands for a null pointer,
\* <<e>> for envelope e.
next_message(pr, c, q) ==
  IF ~pr
  THEN IF q = <<>> THEN [ptr |-> <<>>, first |-> c, mbox |-> q]
       ELSE [ptr |-> <<Head(q)>>, first |-> c, mbox |-> Tail(q)]
  ELSE LET c2 == Reassemble(c, q)
           q2 == Drained(c, q)
       IN IF c2 = <<>> THEN [ptr |-> <<>>, first |-> c2, mbox |-> q2]
          ELSE [ptr |-> <<Head(c2)>>, first |-> Tail(c2), mbox |-> q2]

\* A variant of has_next_message that forgets the cache of a
\* priority-aware actor.
has_next_message_mailbox_only(pr, c, q) == q # <<>>

\* A variant of has_next_message that never finds an envelope.
has_next_message_never(pr, c, q) == FALSE

has_next_message(pr, c, q) ==
  IF ~pr THEN q # <<>> ELSE c # <<>> \/ q # <<>>

\* std::partition_point over the second segment with predicate high_prio.
RECURSIVE PartitionPoint(_, _)
PartitionPoint(s, i) ==
  IF i > Len(s) THEN i
  ELSE IF is_high_priority(s[i]) THEN PartitionPoint(s, i + 1) ELSE i

push_to_cache(pr, s, e) ==
  IF ~pr THEN Append(s, e)
  ELSE InsertAt(s, IF is_high_priority(e) THEN PartitionPoint(s, 1) ELSE Len(s) + 1, e)


\* ---------------------------------------------------------------- behaviors
\* The handlers the actor's implementation installs.  B1 is the behavior
\* make_behavior returns, B2 the one it becomes, BT and BT2 behaviors with a
\* timeout that are pushed on top of it, H the handler of a response and HE
\* a handler of a response that also accepts an error; "none" is the empty
\* behavior.  The payloads xa, xs and xq make their handler throw.
Throwing == {"xa", "xs", "xq"}

Match(b, pl) ==
  CASE b = "B1" -> (CASE pl \in {"a", "c", "q", "r", "s", "t", "w"} \cup Throwing -> "match"
                      [] pl \in {"b", "qs"} -> "skip"
                      [] OTHER -> "no_match")
    [] b = "B2" -> (CASE pl \in {"a", "b", "q", "r"} \cup Throwing -> "match"
                      [] pl = "c" -> "skip"
                      [] OTHER -> "no_match")
    [] b = "BT" -> (CASE pl \in {"a", "q", "r", "t"} -> "match"
                      [] pl = "b" -> "skip"
                      [] OTHER -> "no_match")
    [] b = "BT2" -> (CASE pl \in {"a", "q"} -> "match"
                       [] pl = "b" -> "skip"
                       [] OTHER -> "no_match")
    [] b = "H" -> (IF pl = "ok" THEN "match" ELSE "no_match")
    [] b = "HE" -> (IF pl \in {"ok", "err"} THEN "match" ELSE "no_match")
    [] OTHER -> "no_match"

\* behavior::timeout(): "invalid", "zero" or "delayed".
BhvrTimeout(b) == IF b \in {"BT", "BT2"} THEN "delayed" ELSE "invalid"

\* ------------------------------------------------------- actor-local state
\* The state a handler, finished() and cleanup() can touch, as one record.
Pack ==
  [mstate |-> mstate, mbox |-> mbox, first |-> first, second |-> second,
   prio |-> prio, detached |-> detached,
   initialized |-> initialized, terminated |-> terminated,
   cleaned_up |-> cleaned_up,
   bhvr_stack |-> bhvr_stack, awaited_responses |-> awaited_responses,
   multiplexed_responses |-> multiplexed_responses,
   last_request_id |-> last_request_id, generators |-> generators,
   subscriptions |-> subscriptions, fail_state |-> fail_state,
   current_element |-> current_element, has_timeout |-> has_timeout,
   timeout_id |-> timeout_id, timers |-> timers, pt_state |-> pt_state,
   nextId |-> nextId, invoked |-> invoked, bounces |-> bounces,
   replies |-> replies, on_exit_calls |-> on_exit_calls,
   cleanup_calls |-> cleanup_calls, shutdown_signals |-> shutdown_signals,
   unsubscribes |-> unsubscribes, fired |-> fired, caught |-> caught,
   revives |-> revives, exit_throws |-> exit_throws, thrown |-> "none"]

Commit(st) ==
  /\ mstate' = st.mstate /\ mbox' = st.mbox
  /\ first' = st.first /\ second' = st.second
  /\ initialized' = st.initialized /\ terminated' = st.terminated
  /\ cleaned_up' = st.cleaned_up
  /\ bhvr_stack' = st.bhvr_stack
  /\ awaited_responses' = st.awaited_responses
  /\ multiplexed_responses' = st.multiplexed_responses
  /\ last_request_id' = st.last_request_id
  /\ generators' = st.generators /\ subscriptions' = st.subscriptions
  /\ fail_state' = st.fail_state /\ current_element' = st.current_element
  /\ has_timeout' = st.has_timeout /\ timeout_id' = st.timeout_id
  /\ timers' = st.timers /\ pt_state' = st.pt_state
  /\ nextId' = st.nextId /\ invoked' = st.invoked
  /\ bounces' = st.bounces /\ replies' = st.replies
  /\ on_exit_calls' = st.on_exit_calls /\ cleanup_calls' = st.cleanup_calls
  /\ shutdown_signals' = st.shutdown_signals
  /\ unsubscribes' = st.unsubscribes
  /\ fired' = st.fired /\ caught' = st.caught

has_behavior(st) ==
  \/ st.bhvr_stack # <<>>
  \/ st.awaited_responses # <<>>
  \/ st.multiplexed_responses # {}

awaits_response(st) == st.awaited_responses # <<>>

\* A variant of awaited_response_id that takes the oldest entry.
awaited_response_id_oldest(st) ==
  IF st.awaited_responses = <<>> THEN 0
  ELSE st.awaited_responses[Len(st.awaited_responses)][1]

\* 0 stands for the invalid message id
awaited_response_id(st) ==
  IF st.awaited_responses = <<>> THEN 0 ELSE Head(st.awaited_responses)[1]

awaited_response_handler(st) == Head(st.awaited_responses)[2]

\* A variant of is_active_timeout that does not look at has_timeout.
is_active_timeout_by_id(st, tid) == st.timeout_id = tid

is_active_timeout(st, tid) == st.has_timeout /\ st.timeout_id = tid

quit(st, x) == [st EXCEPT !.fail_state = x, !.terminated = TRUE]

\* request_timeout: the state after the call.
request_timeout(st, d) ==
  IF d = "invalid" THEN [st EXCEPT !.has_timeout = FALSE]
  ELSE LET tid == st.timeout_id + 2
           s1 == [st EXCEPT !.has_timeout = TRUE, !.timeout_id = tid]
       IN IF d = "zero"
          THEN \* enqueue to self: the reader is running, the result is success
               [s1 EXCEPT !.mbox = Append(@, Env(st.nextId, "timeout", "async", FALSE, 0, tid)),
                          !.nextId = @ + 1,
                          !.invoked = @ @@ (st.nextId :> 0)]
          ELSE [s1 EXCEPT !.timers = @ \cup {tid}]

\* What request_timeout returns: the first of its two increments of
\* timeout_id_; the timeout_msg carries the second.
request_timeout_result(st, d) ==
  IF d = "invalid" THEN 0 ELSE st.timeout_id + 1

reset_timeout(st, tid) ==
  IF is_active_timeout(st, tid) THEN [st EXCEPT !.has_timeout = FALSE] ELSE st

do_become(st, bhvr, discard_old) ==
  LET s1 == IF discard_old
            THEN [st EXCEPT !.bhvr_stack = SubSeq(@, 1, Len(@) - 1)]
            ELSE st
      s2 == request_timeout(s1, BhvrTimeout(bhvr))
  IN [s2 EXCEPT !.bhvr_stack = Append(@, bhvr)]

set_awaited_response_handler(st, rid, bhvr) ==
  IF \E i \in DOMAIN st.awaited_responses : st.awaited_responses[i][1] = rid
  THEN [st EXCEPT !.awaited_responses =
          [i \in DOMAIN @ |-> IF @[i][1] = rid THEN <<rid, bhvr>> ELSE @[i]]]
  ELSE [st EXCEPT !.awaited_responses = <<<<rid, bhvr>>>> \o @]

set_multiplexed_response_handler(st, rid, bhvr) ==
  [st EXCEPT !.multiplexed_responses =
     {p \in @ : p[1] # rid} \cup {<<rid, bhvr>>}]


\* detail::sync_request_bouncer applied to a sequence of envelopes: one error
\* response per request envelope.
RECURSIVE BounceAll(_, _)
BounceAll(envs, rsn) ==
  IF envs = <<>> THEN <<>>
  ELSE (IF is_request(Head(envs)) THEN <<[id |-> Head(envs).id, reason |-> rsn]>> ELSE <<>>)
       \o BounceAll(Tail(envs), rsn)

\* single_reader_queue::close(f): drain the queue and its cache, applying f.
MbClose(st, rsn) ==
  [st EXCEPT !.mstate = "closed", !.mbox = <<>>, !.first = <<>>, !.second = <<>>,
             !.bounces = @ \o BounceAll(st.mbox \o st.first \o st.second, rsn)]

\* private_thread::shutdown
\* A variant of pt_shutdown that leaves the worker's state as it is.
pt_shutdown_silent(st) == [st EXCEPT !.shutdown_signals = @ + 1]

pt_shutdown(st) ==
  [st EXCEPT !.pt_state = "shutdown_requested", !.shutdown_signals = @ + 1]

\* monitorable_actor::cleanup: records the fail state once.
base_cleanup(st, rsn) ==
  IF ~st.cleaned_up
  THEN [st EXCEPT !.fail_state = rsn, !.terminated = TRUE, !.cleaned_up = TRUE]
  ELSE st

\* A variant of cleanup that leaves the multiplexed handlers in place.
cleanupKeepsMultiplexed(st, rsn) ==
  LET s1 == IF st.detached THEN pt_shutdown(st) ELSE st
      s2 == [s1 EXCEPT !.generators = {}, !.current_element = 0]
      s3 == IF s2.mstate # "closed" THEN MbClose(s2, rsn) ELSE s2
      s4 == [s3 EXCEPT !.awaited_responses = <<>>,
                       !.unsubscribes = @ + Cardinality(s3.subscriptions),
                       !.subscriptions = {},
                       !.cleanup_calls = @ + 1]
  IN base_cleanup(s4, rsn)

cleanup(st, rsn) ==
  LET s1 == IF st.detached THEN pt_shutdown(st) ELSE st
      s2 == [s1 EXCEPT !.generators = {}, !.current_element = 0]
      s3 == IF s2.mstate # "closed" THEN MbClose(s2, rsn) ELSE s2
      s4 == [s3 EXCEPT !.awaited_responses = <<>>,
                       !.multiplexed_responses = {},
                       !.unsubscribes = @ + Cardinality(s3.subscriptions),
                       !.subscriptions = {},
                       !.cleanup_calls = @ + 1]
  IN base_cleanup(s4, rsn)

\* on_exit(): empty in local_actor; the override of an actor with revives
\* sets a new behavior, as the documentation of quit allows.
on_exit(st) ==
  IF st.exit_throws /\ st.on_exit_calls = 0
  THEN [st EXCEPT !.on_exit_calls = @ + 1, !.thrown = "std_exception"]
  ELSE IF st.revives
  THEN do_become([st EXCEPT !.on_exit_calls = @ + 1], "B2", FALSE)
  ELSE [st EXCEPT !.on_exit_calls = @ + 1]

\* finished(): [st, fin]
finished(st) ==
  IF has_behavior(st) /\ ~st.terminated
  THEN [st |-> st, fin |-> FALSE]
  ELSE LET s1 == on_exit(st)
           s2 == [s1 EXCEPT !.bhvr_stack = <<>>]
       IN IF s1.thrown # "none" THEN [st |-> s1, fin |-> FALSE]
          ELSE [st |-> cleanup(s2, s2.fail_state), fin |-> TRUE]

\* A variant of new_request_id that hands out the last id again.
new_request_id_reused(st) == st

\* new_request_id: the new id is st.last_request_id of the result.
new_request_id(st) == [st EXCEPT !.last_request_id = @ + 1]

\* request(...).await(bhvr) once the request has the id st.last_request_id
request_await(st, bhvr) ==
  set_awaited_response_handler(st, st.last_request_id, bhvr)

\* request(...).then(bhvr) once the request has the id st.last_request_id
request_then(st, bhvr) ==
  set_multiplexed_response_handler(st, st.last_request_id, bhvr)

\* A throw statement in a handler: the exception leaves invoke_message.
throw(st, exc) == [st EXCEPT !.thrown = exc]

\* The body of the handler of behavior b that matched payload pl.
ApplyHandler(st, b, pl) ==
  CASE b = "B1" /\ pl = "c" ->
         \* new_stream to a sink, then become(B2)
         do_become([st EXCEPT !.generators = @ \cup {"sink"}], "B2", TRUE)
    [] b = "B2" /\ pl = "a" ->
         [st EXCEPT !.bhvr_stack = SubSeq(@, 1, Len(@) - 1)]
    [] pl = "q" -> quit(st, "user")
    [] b = "B1" /\ pl = "r" -> request_await(new_request_id(st), "H")
    [] b = "B2" /\ pl = "r" -> request_then(new_request_id(st), "H")
    [] b = "BT" /\ pl = "r" -> request_await(new_request_id(st), "H")
    [] b = "B1" /\ pl = "s" ->
         \* two requests: the first is awaited, the second multiplexed
         request_then(new_request_id(request_await(new_request_id(st), "HE")), "HE")
    [] b = "B1" /\ pl = "w" ->
         \* two requests, both awaited
         request_await(new_request_id(request_await(new_request_id(st), "HE")), "HE")
    [] b = "B1" /\ pl = "t" -> do_become(st, "BT", FALSE)
    [] b = "BT" /\ pl = "t" -> do_become(st, "BT2", FALSE)
    [] b = "BT2" /\ pl = "a" ->
         \* unbecome
         [st EXCEPT !.bhvr_stack = SubSeq(@, 1, Len(@) - 1)]
    [] pl = "xa" -> throw(st, "actor_exited")
    [] pl = "xs" -> throw(st, "std_exception")
    [] pl = "xq" -> throw(quit(st, "user"), "std_exception")
    [] OTHER -> st

\* local_actor_invoke_result_visitor: respond through the response promise,
\* which is pending only for a request.
Respond(st, e, what) ==
  IF is_request(e) THEN [st EXCEPT !.replies = Append(@, [id |-> e.id, what |-> what])]
  ELSE st

default_error_handler(st, err) == quit(st, err)

\* The payloads (sys, get, key) with a string key, and their keys.
SysGetPayloads == {"sys_get_info", "sys_get_nope"}

SysGetKey(pl) == IF pl = "sys_get_info" THEN "info" ELSE "nope"

\* A variant of SysGetReply that answers every key like "info".
SysGetReplyAnyKey(what) == "ok_info"

\* What filter_msg sends to the sender of (sys, get, what): the tuple
\* (ok, "info", self, name) or the error unsupported_sys_key.
SysGetReply(what) ==
  IF what = "info" THEN "ok_info" ELSE "unsupported_sys_key"

\* The payloads (sys, addSource), (sys, delSource, addr) and (sys, get, n).
LedgerPayloads == {"sys_add_source", "sys_del_source", "sys_get_n"}

\* The entry of the log of handler calls for a call filter_msg makes for the
\* envelope e: the ledger operation of a payload of LedgerPayloads, or the
\* down handler.
FilterCall(e, what) ==
  [kind |-> what, rid |-> 0, tid |-> 0, id |-> e.id, pl |-> e.pl,
   bhvr |-> "none"]

\* filter_msg: [st, type]
filter_msg(st, e) ==
  IF is_response(e) THEN [st |-> st, type |-> "response"]
  ELSE CASE e.pl \in SysGetPayloads ->
              [st |-> [st EXCEPT !.replies =
                         Append(@, [id |-> e.id,
                                    what |-> SysGetReply(SysGetKey(e.pl))])],
               type |-> "sys_message"]
         [] e.pl = "timeout" ->
              [st |-> st,
               type |-> IF is_active_timeout(st, e.tid) THEN "timeout" ELSE "expired_timeout"]
         [] e.pl = "kill" -> [st |-> quit(st, "kill"), type |-> "sys_message"]
         [] e.pl = "exit" -> [st |-> quit(st, "exit"), type |-> "sys_message"]
         [] e.pl \in LedgerPayloads ->
              [st |-> [st EXCEPT !.fired = Append(@, FilterCall(e, "ledger"))],
               type |-> "sys_message"]
         [] e.pl = "down" ->
              [st |-> [st EXCEPT !.fired = Append(@, FilterCall(e, "down"))],
               type |-> "sys_message"]
         [] e.pl = "error" ->
              [st |-> default_error_handler(st, "error"), type |-> "sys_message"]
         [] OTHER -> [st |-> st, type |-> "ordinary"]

\* handle_response: the state after the call.
handle_response(st, e, bhvr) ==
  LET s0 == [st EXCEPT !.current_element = e.id,
                       !.fired = Append(@, [kind |-> "response", rid |-> e.rid,
                                            tid |-> 0, id |-> e.id, pl |-> e.pl,
                                            bhvr |-> bhvr])]
      s1 == IF Match(bhvr, e.pl) # "no_match" THEN ApplyHandler(s0, bhvr, e.pl)
            ELSE IF e.pl = "err" THEN default_error_handler(s0, "request_timeout")
            ELSE default_error_handler(s0, "unexpected_response")
  IN [s1 EXCEPT !.current_element = st.current_element]

find_multiplexed_response(st, rid) ==
  {p \in st.multiplexed_responses : p[1] = rid}

find_awaited_response(st, rid) ==
  {i \in DOMAIN st.awaited_responses : st.awaited_responses[i][1] = rid}

\* A variant of mark_multiplexed_arrived that leaves the entry in the map.
mark_multiplexed_arrived_kept(st, rid) == st

mark_multiplexed_arrived(st, rid) ==
  [st EXCEPT !.multiplexed_responses = {p \in @ : p[1] # rid}]

mark_awaited_arrived(st, rid) ==
  [st EXCEPT !.awaited_responses = SelectSeq(@, LAMBDA p : p[1] # rid)]


\* The body of a handler of behavior b that returns skip for payload pl: the
\* handler for "qs" calls quit before it returns skip.
SkipHandler(st, b, pl) ==
  IF b = "B1" /\ pl = "qs" THEN quit(st, "user") ELSE st

\* The visitor gets the handler's result unless the handler threw.
RespondUnlessThrown(h, e) ==
  IF h.thrown # "none" THEN h ELSE Respond(h, e, "result")

\* A variant of invoke_ordinary that leaves has_timeout as it is while the
\* handler runs.
invoke_ordinary_keeping_timeout(st, e, fun, awaited_id) ==
  IF awaited_id # 0 THEN [st |-> st, res |-> "im_skipped"]
  ELSE LET had_timeout == st.has_timeout
           s0 == [st EXCEPT !.current_element = e.id]
           m == Match(fun, e.pl)
           skipped == m = "skip"
           s1 == CASE m = "match" -> RespondUnlessThrown(ApplyHandler(s0, fun, e.pl), e)
                   [] m = "no_match" ->
                        Respond([s0 EXCEPT !.has_timeout = had_timeout], e, "error")
                   [] OTHER -> SkipHandler(s0, fun, e.pl)
           s2 == [s1 EXCEPT !.current_element = st.current_element]
       IN IF s1.thrown # "none" THEN [st |-> s1, res |-> "im_thrown"]
          ELSE IF skipped
          THEN [st |-> [s2 EXCEPT !.has_timeout = IF had_timeout THEN TRUE ELSE @],
                res |-> "im_skipped"]
          ELSE [st |-> s2, res |-> "im_success"]

\* The ordinary case of invoke_message for an envelope without the
\* flow-controlled flag: [st, res].  The result im_thrown stands for an
\* exception that leaves invoke_message: current_element_ keeps the envelope.
invoke_ordinary(st, e, fun, awaited_id) ==
  IF awaited_id # 0 THEN [st |-> st, res |-> "im_skipped"]
  ELSE LET had_timeout == st.has_timeout
           s0 == [st EXCEPT !.has_timeout = FALSE, !.current_element = e.id]
           m == Match(fun, e.pl)
           skipped == m = "skip"
           s1 == CASE m = "match" -> RespondUnlessThrown(ApplyHandler(s0, fun, e.pl), e)
                   [] m = "no_match" ->
                        \* default_handler_ is print_and_drop: an error result
                        Respond([s0 EXCEPT !.has_timeout = had_timeout], e, "error")
                   [] OTHER -> SkipHandler(s0, fun, e.pl)
           \* the second swap gives current_element_ what it held before
           s2 == [s1 EXCEPT !.current_element = st.current_element]
       IN IF s1.thrown # "none" THEN [st |-> s1, res |-> "im_thrown"]
          ELSE IF skipped
          THEN [st |-> [s2 EXCEPT !.has_timeout = IF had_timeout THEN TRUE ELSE @],
                res |-> "im_skipped"]
          ELSE [st |-> s2, res |-> "im_success"]

\* A variant of invoke_response that runs a multiplexed handler whether or
\* not an awaited id is in force.
invoke_response_unconditional(st, e, awaited_id) ==
  LET mx == find_multiplexed_response(st, e.rid)
      aw == find_awaited_response(st, e.rid)
  IN IF mx # {}
     THEN [st |-> mark_multiplexed_arrived(
                    handle_response(st, e, (CHOOSE p \in mx : TRUE)[2]), e.rid),
           res |-> "im_success"]
     ELSE IF aw # {} /\ awaited_id # 0 /\ e.rid = awaited_id
     THEN [st |-> mark_awaited_arrived(
                    handle_response(st, e,
                      st.awaited_responses[CHOOSE i \in aw : TRUE][2]), e.rid),
           res |-> "im_success"]
     ELSE [st |-> st, res |-> IF aw # {} THEN "im_skipped" ELSE "im_dropped"]

\* A variant of invoke_response that drops the response to a multiplexed
\* request while an awaited id is in force.
invoke_response_dropping(st, e, awaited_id) ==
  LET mx == find_multiplexed_response(st, e.rid)
      aw == find_awaited_response(st, e.rid)
  IN IF mx # {}
     THEN IF awaited_id = 0
          THEN [st |-> mark_multiplexed_arrived(
                         handle_response(st, e, (CHOOSE p \in mx : TRUE)[2]), e.rid),
                res |-> "im_success"]
          ELSE [st |-> st, res |-> "im_dropped"]
     ELSE IF aw # {} /\ awaited_id # 0 /\ e.rid = awaited_id
     THEN [st |-> mark_awaited_arrived(
                    handle_response(st, e,
                      st.awaited_responses[CHOOSE i \in aw : TRUE][2]), e.rid),
           res |-> "im_success"]
     ELSE [st |-> st, res |-> IF aw # {} THEN "im_skipped" ELSE "im_dropped"]

\* The response case of invoke_message: [st, res].
invoke_response(st, e, awaited_id) ==
  LET mx == find_multiplexed_response(st, e.rid)
      aw == find_awaited_response(st, e.rid)
  IN IF mx # {}
     THEN IF awaited_id = 0
          THEN [st |-> mark_multiplexed_arrived(
                         handle_response(st, e, (CHOOSE p \in mx : TRUE)[2]), e.rid),
                res |-> "im_success"]
          ELSE [st |-> st, res |-> "im_skipped"]
     ELSE IF aw # {}
     THEN IF awaited_id # 0 /\ e.rid = awaited_id
          THEN [st |-> mark_awaited_arrived(
                         handle_response(st, e,
                           st.awaited_responses[CHOOSE i \in aw : TRUE][2]), e.rid),
                res |-> "im_success"]
          ELSE [st |-> st, res |-> "im_skipped"]
     ELSE [st |-> [st EXCEPT !.fired =
                     Append(@, [kind |-> "expired_response", rid |-> e.rid,
                                tid |-> 0, id |-> e.id, pl |-> e.pl,
                                bhvr |-> "none"])],
           res |-> "im_dropped"]

\* handle_timeout: the timeout handler of the behaviors of this model has no
\* effect on the actor's state.
handle_timeout(st, bhvr, tid) ==
  IF ~is_active_timeout(st, tid) THEN st
  ELSE [st EXCEPT !.fired = Append(@, [kind |-> "timeout", rid |-> 0, tid |-> tid,
                                       id |-> 0, pl |-> "timeout", bhvr |-> bhvr])]

\* A variant of invoke_message that skips a timeout message that arrives
\* while a response is awaited.
invoke_message_skipping_timeout(st, e, fun, awaited_id) ==
  LET f == filter_msg(st, e)
  IN CASE f.type = "expired_timeout" -> [st |-> f.st, res |-> "im_dropped"]
       [] f.type = "sys_message" -> [st |-> f.st, res |-> "im_dropped"]
       [] f.type = "timeout" ->
            IF awaited_id = 0
            THEN [st |-> handle_timeout(f.st, fun, e.tid), res |-> "im_success"]
            ELSE [st |-> f.st, res |-> "im_skipped"]
       [] f.type = "response" -> invoke_response(f.st, e, awaited_id)
       [] OTHER -> invoke_ordinary(f.st, e, fun, awaited_id)

\* A variant of invoke_message that skips a system message while a response
\* is awaited.
invoke_message_skipping_sys(st, e, fun, awaited_id) ==
  LET f == filter_msg(st, e)
  IN CASE f.type = "expired_timeout" -> [st |-> f.st, res |-> "im_dropped"]
       [] f.type = "sys_message" ->
            [st |-> f.st,
             res |-> IF awaited_id = 0 THEN "im_dropped" ELSE "im_skipped"]
       [] f.type = "timeout" ->
            IF awaited_id = 0
            THEN [st |-> handle_timeout(f.st, fun, e.tid), res |-> "im_success"]
            ELSE [st |-> f.st, res |-> "im_dropped"]
       [] f.type = "response" -> invoke_response(f.st, e, awaited_id)
       [] OTHER -> invoke_ordinary(f.st, e, fun, awaited_id)

\* invoke_message: [st, res]
invoke_message(st, e, fun, awaited_id) ==
  LET f == filter_msg(st, e)
  IN CASE f.type = "expired_timeout" -> [st |-> f.st, res |-> "im_dropped"]
       [] f.type = "sys_message" -> [st |-> f.st, res |-> "im_dropped"]
       [] f.type = "timeout" ->
            IF awaited_id = 0
            THEN [st |-> handle_timeout(f.st, fun, e.tid), res |-> "im_success"]
            ELSE [st |-> f.st, res |-> "im_dropped"]
       [] f.type = "response" -> invoke_response(f.st, e, awaited_id)
       [] OTHER -> invoke_ordinary(f.st, e, fun, awaited_id)

\* A variant of CurrentBhvr that takes the bottom of the behavior stack.
CurrentBhvrBottom(st) ==
  IF awaits_response(st) THEN awaited_response_handler(st)
  ELSE IF st.bhvr_stack = <<>> THEN "none"
  ELSE st.bhvr_stack[1]

\* The behavior exec_event and invoke_from_cache hand to invoke_message.
CurrentBhvr(st) ==
  IF awaits_response(st) THEN awaited_response_handler(st)
  ELSE IF st.bhvr_stack = <<>> THEN "none"
  ELSE st.bhvr_stack[Len(st.bhvr_stack)]

\* An invocation that ends im_success or im_dropped consumes the envelope.
Consume(st, e, res) ==
  IF res = "im_skipped" THEN st
  ELSE [st EXCEPT !.invoked[e.id] = @ + 1]

\* The cache's invoke, after invoke_message returned r for the element e
\* taken from position i of the second segment.
RECURSIVE CacheInvoke(_, _, _, _)
CacheInvokeStep(r, e, i, bhvr, mid) ==
  CASE r.res = "im_success" -> [st |-> Consume(r.st, e, r.res), hit |-> TRUE]
    [] r.res = "im_dropped" -> CacheInvoke(Consume(r.st, e, r.res), i, bhvr, mid)
    [] r.res = "im_thrown" ->
         \* the exception leaves invoke with the element taken out
         [st |-> Consume(r.st, e, r.res), hit |-> TRUE]
    [] OTHER ->
         \* im_skipped: the element is put back
         CacheInvoke([r.st EXCEPT !.second = InsertAt(@, i, e)], i + 1, bhvr, mid)

\* The cache's invoke over the second segment from position i on, with the
\* behavior and awaited id fixed by the caller: [st, hit].  The element is
\* taken out of the list while it is invoked.
CacheInvoke(st, i, bhvr, mid) ==
  IF i > Len(st.second) THEN [st |-> st, hit |-> FALSE]
  ELSE CacheInvokeStep(
         invoke_message(
           [st EXCEPT !.second = SubSeq(@, 1, i - 1) \o SubSeq(@, i + 1, Len(@))],
           st.second[i], bhvr, mid),
         st.second[i], i, bhvr, mid)

invoke_from_cache(st) ==
  CacheInvoke(st, 1, CurrentBhvr(st), awaited_response_id(st))

\* The loop "while (invoke_from_cache()) if (finished()) return done":
\* [st, fin].
RECURSIVE ReplayCache(_)
ReplayFinished(f) ==
  IF f.fin \/ f.st.thrown # "none" THEN f ELSE ReplayCache(f.st)

ReplayHit(r) ==
  IF ~r.hit \/ r.st.thrown # "none" THEN [st |-> r.st, fin |-> FALSE]
  ELSE ReplayFinished(finished(r.st))

ReplayCache(st) == ReplayHit(invoke_from_cache(st))

\* exec_event after the switch: [st, rr, res]
ExecResult(f, res) ==
  [st |-> f.st, rr |-> IF f.fin THEN "done" ELSE "resume_later", res |-> res]

\* A variant of ExecSuccess that does not continue from the cache.
ExecSuccessNoReplay(f, res) == ExecResult(f, res)

ExecSuccess(f, res) ==
  IF f.fin \/ f.st.thrown # "none" THEN ExecResult(f, res)
  ELSE ExecResult(ReplayCache(f.st), res)

\* A variant of ExecSwitch whose im_success case falls through to the
\* im_skipped case.
ExecSwitchFallThrough(r, e) ==
  CASE r.res = "im_dropped" -> ExecResult(finished(Consume(r.st, e, r.res)), r.res)
    [] OTHER ->
         [st |-> [Consume(r.st, e, r.res) EXCEPT !.second = push_to_cache(r.st.prio, @, e)],
          rr |-> "resume_later", res |-> r.res]

\* exec_event after invoke_message returned r for envelope e
ExecSwitch(r, e) ==
  CASE r.res = "im_success" -> ExecSuccess(finished(Consume(r.st, e, r.res)), r.res)
    [] r.res = "im_skipped" ->
         [st |-> [r.st EXCEPT !.second = push_to_cache(r.st.prio, @, e)],
          rr |-> "resume_later", res |-> r.res]
    [] r.res = "im_thrown" ->
         \* the exception leaves exec_event
         [st |-> Consume(r.st, e, r.res), rr |-> "resume_later", res |-> r.res]
    [] OTHER -> ExecResult(finished(Consume(r.st, e, r.res)), r.res)

\* exec_event: [st, rr, res]
exec_event(st, e) ==
  ExecSwitch(invoke_message(st, e, CurrentBhvr(st), awaited_response_id(st)), e)

\* ------------------------------------------------------------ credit ledger
\* The actors that may register as a source.
Sources == {"s1", "s2"}

\* The settings of the constructor of local_actor.
DefaultMaxCredit == 50

DefaultLowWatermark == 10

\* The settings an actor starts with: those of the constructor, and settings
\* a derived class gives the protected members before the first message.
Configs ==
  {[max |-> DefaultMaxCredit, low |-> DefaultLowWatermark],
   [max |-> 4, low |-> 1], [max |-> 3, low |-> 2], [max |-> 1, low |-> 1]}

\* The counters are uint64_t; Wrap stands for 2^64 and exceeds every value
\* the counters take here.
Wrap == 2 ^ 20

U64(x) == x % Wrap

\* What the last operation on the ledger was: grant_credit(n, cause) with
\* cause the address of a registered source or "none" for sources_.end(),
\* the handling of (sys, addSource) or (sys, delSource) of cause, or "none"
\* for a step that is no operation of the actor. The log is kept only in the
\* behaviours that start with it switched on.
Call(op, n, cause) == [op |-> op, n |-> n, cause |-> cause]

LogOff == Call("off", 0, "none")

Log(c) == IF ledger_call = LogOff THEN ledger_call ELSE c

PackLedger ==
  [open_credit |-> open_credit, low_watermark |-> low_watermark,
   max_credit |-> max_credit, sources |-> sources, emitted |-> <<>>,
   crashed |-> FALSE]

\* The credit of the (sys, get, n) in em that went to source a.
RECURSIVE GetsTo(_, _)
GetsTo(em, a) ==
  IF em = <<>> THEN 0
  ELSE (IF Head(em).to = a THEN Head(em).n ELSE 0) + GetsTo(Tail(em), a)

\* The sources are followed only in the behaviours that start with an
\* allowance for each of them.
TrackOff == <<>>

\* The sources receive the (sys, get, n) sent to them.
Track(em) ==
  IF allowance = TrackOff THEN allowance
  ELSE [a \in DOMAIN allowance |-> allowance[a] + GetsTo(em, a)]

CommitLedger(l) ==
  /\ open_credit' = l.open_credit /\ sources' = l.sources
  /\ emitted' = l.emitted /\ crashed' = l.crashed
  /\ allowance' = Track(l.emitted)
  /\ UNCHANGED <<low_watermark, max_credit>>

in_flight(l) == U64(l.max_credit - l.open_credit)

\* enqueue of (sys, get, n) to source actor a
SendGet(l, a, n) == [l EXCEPT !.emitted = Append(@, [to |-> a, n |-> n])]

\* sources_.find(a): the position of a, 0 for sources_.end()
FindSource(srcs, a) ==
  IF \E i \in DOMAIN srcs : srcs[i].addr = a
  THEN CHOOSE i \in DOMAIN srcs : srcs[i].addr = a
  ELSE 0

RECURSIVE SumCredit(_)
SumCredit(srcs) ==
  IF srcs = <<>> THEN 0 ELSE Head(srcs).credit + SumCredit(Tail(srcs))

IsLive(lv, src) == src.addr \in lv

IsDead(lv, src) == src.addr \notin lv

\* The loop of grant_credit over sources_: a source whose weak pointer
\* expired returns its credit and is erased.
Compact(l, lv) ==
  LET live(src) == IsLive(lv, src)
      dead(src) == IsDead(lv, src)
  IN [l EXCEPT !.open_credit = U64(@ + SumCredit(SelectSeq(l.sources, dead))),
               !.sources = SelectSeq(@, live)]

\* The credit per source and the size src_vec is left with; size 0 stands
\* for the division open_credit_ / 0.
CreditPerSourceFirstOnly(open, size) ==
  IF size = 0 \/ open = 0 THEN [per |-> 0, count |-> 0]
  ELSE [per |-> open, count |-> 1]

RECURSIVE CreditPerSource(_, _)
CreditPerSource(open, size) ==
  IF size = 0 THEN [per |-> 0, count |-> 0]
  ELSE IF open \div size = 0 THEN CreditPerSource(open, size - 1)
  ELSE [per |-> open \div size, count |-> size]

\* A variant of GrantTo that takes the credit of one source from the pool.
GrantToOnce(l, per, count) ==
  [l EXCEPT !.sources = [i \in DOMAIN @ |->
                           IF i <= count
                           THEN [@[i] EXCEPT !.credit = U64(@ + per)]
                           ELSE @[i]],
            !.emitted = @ \o [i \in 1 .. count |->
                                [to |-> l.sources[i].addr, n |-> per]],
            !.open_credit = U64(@ - per)]

\* The last loop of grant_credit: the first count sources get per each.
GrantTo(l, per, count) ==
  [l EXCEPT !.sources = [i \in DOMAIN @ |->
                           IF i <= count
                           THEN [@[i] EXCEPT !.credit = U64(@ + per)]
                           ELSE @[i]],
            !.emitted = @ \o [i \in 1 .. count |->
                                [to |-> l.sources[i].addr, n |-> per]],
            !.open_credit = U64(@ - per * count)]

\* grant_credit from the test of sources_.empty() after the compaction on.
\* A division by zero is undefined behaviour: the process traps, or loops
\* through pop_back on an empty vector; either way the call never returns.
Distribute(l, pc2) ==
  IF l.sources = <<>> THEN l
  ELSE IF pc2.count = 0 THEN [l EXCEPT !.crashed = TRUE]
  ELSE GrantTo(l, pc2.per, pc2.count)

AfterCompaction(l) ==
  Distribute(l, CreditPerSource(l.open_credit, Len(l.sources)))

\* grant_credit after its first statement: l holds the raised open_credit_.
GrantFrom(l, lv, n, cause, above) ==
  LET s1 == IF cause # 0
            THEN [l EXCEPT !.sources[cause].credit = U64(@ - n)]
            ELSE l
  IN IF cause # 0 /\ s1.sources[cause].credit = 0 /\ above
     THEN IF s1.sources[cause].addr \in lv
          THEN [SendGet(s1, s1.sources[cause].addr, s1.open_credit)
                  EXCEPT !.sources[cause].credit = s1.open_credit,
                         !.open_credit = 0]
          ELSE s1
     ELSE IF above \/ s1.sources = <<>> THEN s1
     ELSE AfterCompaction(Compact(s1, lv))

RaiseOpen(l, n) == [l EXCEPT !.open_credit = U64(@ + n)]

AboveLowWatermarkInverted(l) == in_flight(l) <= l.low_watermark

AboveLowWatermark(l) == in_flight(l) > l.low_watermark

\* grant_credit(newly_available, cause): lv is the set of actors a strong
\* pointer can be obtained to, cause a position in sources_ or 0 for end().
grant_credit(l, lv, n, cause) ==
  GrantFrom(RaiseOpen(l, n), lv, n, cause, AboveLowWatermark(RaiseOpen(l, n)))

add_source_uncredited(l, a, pos) ==
  IF FindSource(l.sources, a) # 0 THEN l
  ELSE LET l1 == [l EXCEPT !.sources =
                     InsertAt(@, pos, [addr |-> a, credit |-> 0])]
       IN IF l.open_credit > 0
          THEN [SendGet(l1, a, l.open_credit) EXCEPT !.open_credit = 0]
          ELSE l1

add_source_keeping_open(l, a, pos) ==
  IF FindSource(l.sources, a) # 0 THEN l
  ELSE LET l1 == [l EXCEPT !.sources =
                     InsertAt(@, pos, [addr |-> a, credit |-> l.open_credit])]
       IN IF l.open_credit > 0 THEN SendGet(l1, a, l.open_credit) ELSE l1

\* filter_msg on (sys, addSource) from sender a; pos is where the
\* unordered map places the new entry in its iteration order.
add_source(l, a, pos) ==
  IF FindSource(l.sources, a) # 0 THEN l
  ELSE LET l1 == [l EXCEPT !.sources =
                     InsertAt(@, pos, [addr |-> a, credit |-> l.open_credit])]
       IN IF l.open_credit > 0
          THEN [SendGet(l1, a, l.open_credit) EXCEPT !.open_credit = 0]
          ELSE l1

EraseAt(srcs, i) == SubSeq(srcs, 1, i - 1) \o SubSeq(srcs, i + 1, Len(srcs))

\* filter_msg on (sys, delSource, a)
del_source(l, lv, a) ==
  LET i == FindSource(l.sources, a)
  IN IF i = 0 THEN l
     ELSE grant_credit([l EXCEPT !.sources = EraseAt(@, i)], lv,
                       l.sources[i].credit, 0)

\* What the handler of a flow-controlled envelope can give the visitor: an
\* empty message, a non-empty message, an error, none_t, nothing at all
\* (unit), or skip; no_match goes to the default handler, whose result
\* (print_and_drop: an error) the visitor gets.
FlowResults ==
  {"empty", "message", "error", "none_t", "unit", "skip", "no_match"}

flow_visit_always(l, lv, i, r) ==
  IF r # "skip" THEN grant_credit(l, lv, 1, i) ELSE l

\* local_actor_flow_visitor for the i-th source: only an empty message
\* grants credit.
flow_visit(l, lv, i, r) ==
  IF r = "empty" THEN grant_credit(l, lv, 1, i) ELSE l

\* The flow-controlled case of invoke_message for an envelope of sender:
\* the handler runs only for a registered source.
invoke_flow(l, lv, sender, r) ==
  IF sender = "none" \/ FindSource(l.sources, sender) = 0 THEN l
  ELSE flow_visit(l, lv, FindSource(l.sources, sender), r)

\* ------------------------------------------------------------ the actions
\* The kinds of envelope other actors send: payload, id category, priority.
Kinds ==
  {[pl |-> "a", mt |-> "async", hp |-> FALSE],
   [pl |-> "a", mt |-> "request", hp |-> FALSE],
   [pl |-> "a", mt |-> "async", hp |-> TRUE],
   [pl |-> "b", mt |-> "async", hp |-> FALSE],
   [pl |-> "b", mt |-> "request", hp |-> TRUE],
   [pl |-> "c", mt |-> "async", hp |-> FALSE],
   [pl |-> "q", mt |-> "async", hp |-> FALSE],
   [pl |-> "r", mt |-> "async", hp |-> FALSE],
   [pl |-> "u", mt |-> "request", hp |-> FALSE],
   [pl |-> "exit", mt |-> "async", hp |-> TRUE]}

\* The ledger after construction with the settings cfg.
InitCounters(cfg) ==
  /\ open_credit = cfg.max /\ low_watermark = cfg.low /\ max_credit = cfg.max
  /\ sources = <<>> /\ alive = Sources /\ exited = {}
  /\ emitted = <<>> /\ crashed = FALSE
  /\ surplus = 0
  /\ in_transit = [a \in Sources |-> 0]

InitLedger(cfg) ==
  InitCounters(cfg) /\ ledger_call = LogOff /\ allowance = TrackOff

InitPull == returned = <<>> /\ cycle = <<>> /\ cycles = 0

\* The constructor, apart from what the actor's class does in on_exit().
InitObject ==
  /\ mstate = "open" /\ mbox = <<>> /\ first = <<>> /\ second = <<>>
  /\ prio \in BOOLEAN /\ detached \in BOOLEAN
  /\ launched = FALSE /\ initialized = FALSE /\ terminated = FALSE
  /\ cleaned_up = FALSE /\ destroyed = FALSE
  /\ bhvr_stack = <<>> /\ awaited_responses = <<>>
  /\ multiplexed_responses = {} /\ last_request_id = 0
  /\ generators = {} /\ subscriptions = {"grp"}
  /\ fail_state = "none" /\ current_element = 0
  /\ has_timeout = FALSE /\ timeout_id = 0 /\ timers = {}
  /\ pending = 0 /\ pc = "idle" /\ iter = 0 /\ handled_msgs = 0
  /\ pt_state = "none" /\ pt_pc = "none" /\ resume_result = "none"
  /\ nextId = 1 /\ invoked = <<>> /\ bounces = <<>> /\ replies = <<>>
  /\ on_exit_calls = 0 /\ cleanup_calls = 0 /\ shutdown_signals = 0
  /\ unsubscribes = 0 /\ fired = <<>> /\ caught = <<>>
  /\ enq_result = "none" /\ enq_mt = "none"
  /\ self_destroyed = FALSE /\ detached_threads = 0 /\ destructed = FALSE

InitActor == InitObject /\ exit_throws = FALSE

\* The state after the constructor of local_actor.
Init ==
  /\ InitActor /\ revives = FALSE
  /\ InitLedger([max |-> DefaultMaxCredit, low |-> DefaultLowWatermark])
  /\ InitPull

\* launch(eu, lazy, hide) of a non-blocking actor
Launch(lazy) ==
  /\ ~launched
  /\ launched' = TRUE
  /\ IF detached
     THEN \* the constructor of private_thread counts the new thread
          /\ pt_state' = "active" /\ pt_pc' = "top" /\ resume_result' = resume_result
          /\ detached_threads' = detached_threads + 1
          /\ UNCHANGED <<mstate, pending>>
     ELSE IF lazy /\ MbCanBlock(mstate, mbox)
     THEN /\ mstate' = "blocked"
          /\ UNCHANGED <<pending, pt_state, pt_pc, resume_result, detached_threads>>
     ELSE /\ pending' = pending + 1
          /\ UNCHANGED <<mstate, pt_state, pt_pc, resume_result, detached_threads>>
  /\ UNCHANGED <<mbox, first, second, prio, detached, initialized, terminated,
                 cleaned_up, destroyed, revives, exit_throws, localVars, pc, iter,
                 handled_msgs, obsVars, histVars, ledgerVars, pullVars,
                 self_destroyed, destructed>>

\* A variant of Reschedules that never re-schedules the actor.
ReschedulesNever(res) == FALSE

\* A variant of Reschedules that also re-schedules a running actor.
ReschedulesAlways(res) == res \in {"unblocked_reader", "success"}

\* Whether enqueue re-schedules the actor on this mailbox result.
Reschedules(res) == res = "unblocked_reader"

\* A variant of Bounces that answers every envelope a closed mailbox refuses.
BouncesAny(res, e) == res = "queue_closed"

\* Whether enqueue bounces the envelope on this mailbox result.
Bounces(res, e) == res = "queue_closed" /\ is_request(e)

\* enqueue(ptr, eu) of envelope e, apart from the actor-local state, which
\* enqueue leaves alone
EnqueueAt(e) ==
  LET res == MbEnqueueResult(mstate)
  IN /\ mbox' = IF res = "queue_closed" THEN mbox ELSE Append(mbox, e)
     /\ mstate' = IF res = "unblocked_reader" THEN "open" ELSE mstate
     /\ IF Reschedules(res)
        THEN IF detached
             THEN pt_state' = "active" /\ pending' = pending
             ELSE pending' = pending + 1 /\ pt_state' = pt_state
        ELSE UNCHANGED <<pending, pt_state>>
     /\ bounces' = IF Bounces(res, e)
                   THEN Append(bounces, [id |-> e.id, reason |-> fail_state])
                   ELSE bounces
     /\ nextId' = nextId + 1
     /\ invoked' = invoked @@ (e.id :> 0)
     /\ enq_result' = res /\ enq_mt' = e.mt
     /\ UNCHANGED <<first, second, flagVars, pc, iter, handled_msgs,
                    pt_pc, resume_result, replies, on_exit_calls, cleanup_calls,
                    shutdown_signals, unsubscribes, fired, caught, sideVars>>

\* enqueue(ptr, eu) of envelope e
EnqueueEnv(e) == EnqueueAt(e) /\ UNCHANGED localVars

\* Another actor sends an envelope.
Enqueue ==
  /\ launched /\ ~destroyed /\ nextId <= MaxMsgs
  /\ \E k \in Kinds : EnqueueEnv(Env(nextId, k.pl, k.mt, k.hp, 0, 0))

\* The response to a request of this actor arrives.
EnqueueResponse ==
  /\ launched /\ ~destroyed /\ nextId <= MaxMsgs
  /\ \E r \in 1 .. last_request_id :
       EnqueueEnv(Env(nextId, "ok", "response", FALSE, r, 0))


\* What the caller of resume does with its result: the scheduler re-submits
\* on resume_later; private_thread::run loops, waits or returns.
Return(rr) ==
  /\ pc' = "idle" /\ resume_result' = rr
  /\ IF detached
     THEN /\ pt_pc' = CASE rr = "resume_later" -> "again"
                        [] rr = "awaiting_message" -> "await"
                        [] OTHER -> "exited"
          /\ pending' = pending
     ELSE /\ pending' = (IF pc = "idle" THEN pending - 1 ELSE pending)
                        + (IF rr = "resume_later" THEN 1 ELSE 0)
          /\ pt_pc' = pt_pc

\* initialize() of an event-based actor: make_behavior returned ib.
initialize(st, ib) ==
  LET s1 == [st EXCEPT !.initialized = TRUE]
  IN IF ib = "none" THEN s1 ELSE do_become(s1, ib, TRUE)

\* A variant of DoneAtEntry that does not ask for an initialized actor when
\* the actor is terminated.
DoneAtEntryTerminatedFirst(st) ==
  st.terminated \/ (st.initialized /\ ~has_behavior(st))

\* Whether resume returns done at its entry.
DoneAtEntry(st) == st.initialized /\ (~has_behavior(st) \/ st.terminated)

\* What handle(eptr) returns: no reason, or the reason of the custom
\* exception handler.
ExceptionHandlerResults == {"none", "custom_reason"}

\* The reason the catch clause of resume quits with.
CaughtReason(exc) ==
  IF exc = "actor_exited" THEN "thrown_reason" ELSE "unhandled_exception"

\* A variant of AfterCatch that does not ask the custom exception handler.
AfterCatchNoHandler(st, exc, opt) == st

\* resume after its catch clauses: eptr is set unless actor_exited was
\* caught, and handle(eptr) returned opt.
AfterCatch(st, exc, opt) ==
  IF exc # "actor_exited" /\ opt # "none" THEN quit(st, opt) ELSE st

\* The catch clauses of resume for the exception st.thrown.
CatchClause(st) ==
  IF ~st.terminated THEN quit(st, CaughtReason(st.thrown)) ELSE st

\* resume from its catch clauses to its return: [st, rr].  The call of
\* finished() here is outside the try block: it is the second call of
\* on_exit() when the exception came from the first.
Catch(st, opt) ==
  LET s1 == [AfterCatch(CatchClause(st), st.thrown, opt)
               EXCEPT !.thrown = "none",
                      !.caught = Append(@, [exc |-> st.thrown,
                                            opt |-> IF st.thrown = "actor_exited"
                                                    THEN "none" ELSE opt,
                                            was_terminated |-> st.terminated,
                                            fail_before |-> st.fail_state])]
  IN ExecResult(finished(s1), "im_thrown")

\* resume after initialize(): f is the result of finished(), which is
\* called inside the try block.
ResumeEnter(f) ==
  IF f.st.thrown # "none"
  THEN \E opt \in ExceptionHandlerResults : \E c \in {Catch(f.st, opt)} :
         Commit(c.st) /\ Return(c.rr) /\ UNCHANGED <<iter, handled_msgs>>
  ELSE IF f.fin
  THEN Commit(f.st) /\ Return("done") /\ UNCHANGED <<iter, handled_msgs>>
  ELSE /\ Commit(f.st)
       /\ pc' = "loop" /\ iter' = 0 /\ handled_msgs' = 0
       /\ pending' = IF detached THEN pending ELSE pending - 1
       /\ pt_pc' = IF detached THEN "resume" ELSE pt_pc
       /\ resume_result' = resume_result

ResumeFrom(st0) ==
  IF DoneAtEntry(st0)
  THEN Commit(st0) /\ Return("done") /\ UNCHANGED <<iter, handled_msgs>>
  ELSE IF ~st0.initialized
  THEN \E ib \in {"B1", "none"} :
         \E f \in {finished(initialize(st0, ib))} : ResumeEnter(f)
  ELSE ResumeEnter([st |-> st0, fin |-> FALSE])

\* resume(eu, max_throughput) up to the first iteration of its loop.  The
\* private thread sets its state at the top of its loop, before the call.
ResumeBegin ==
  /\ pc = "idle"
  /\ IF detached THEN pt_pc \in {"top", "again"} ELSE pending > 0
  /\ \E st0 \in {IF detached /\ pt_pc = "top"
                 THEN [Pack EXCEPT !.pt_state = "await_resume_or_shutdown"]
                 ELSE Pack} : ResumeFrom(st0)
  /\ UNCHANGED <<histVars, sideVars, prio, detached, launched, destroyed, revives, exit_throws>>

\* reset_timeout_if_needed of resume
reset_timeout_if_needed(st, handled) ==
  IF handled > 0 /\ st.bhvr_stack # <<>>
  THEN request_timeout(st, BhvrTimeout(st.bhvr_stack[Len(st.bhvr_stack)]))
  ELSE st

\* The loop condition i < max_throughput; a private thread passes the
\* largest size_t.
InBudget == detached \/ iter < MaxThroughput

\* The loop body of resume after exec_event returned r.
ResumeAfterEvent(r) ==
  IF r.st.thrown # "none"
  THEN \E opt \in ExceptionHandlerResults : \E c \in {Catch(r.st, opt)} :
         Commit(c.st) /\ Return(c.rr) /\ UNCHANGED <<iter, handled_msgs>>
  ELSE /\ Commit(r.st)
       /\ IF r.rr = "done"
          THEN Return("done") /\ UNCHANGED <<iter, handled_msgs>>
          ELSE /\ handled_msgs' = IF r.res = "im_success"
                                  THEN handled_msgs + 1 ELSE handled_msgs
               /\ iter' = IF detached THEN iter ELSE iter + 1
               /\ UNCHANGED <<pc, pending, pt_pc, resume_result>>

\* The loop body of resume after next_message returned nm.
ResumeWith(nm, st0) ==
  IF nm.ptr # <<>>
  THEN \E r \in {exec_event(st0, nm.ptr[1])} : ResumeAfterEvent(r)
  ELSE /\ \E st \in {reset_timeout_if_needed(st0, handled_msgs)} : Commit(st)
       /\ pc' = "try_block"
       /\ UNCHANGED <<iter, handled_msgs, pending, pt_pc, resume_result>>

AfterNextMessage(nm) ==
  \E st0 \in {[Pack EXCEPT !.first = nm.first, !.mbox = nm.mbox]} :
    ResumeWith(nm, st0)

\* One iteration of the loop of resume, up to the call of try_block.
ResumeIter ==
  /\ pc = "loop" /\ InBudget
  /\ \E nm \in {next_message(prio, first, mbox)} : AfterNextMessage(nm)
  /\ UNCHANGED <<histVars, sideVars, prio, detached, launched, destroyed, revives, exit_throws>>

\* mailbox().try_block() inside the loop
ResumeTryBlock ==
  /\ pc = "try_block"
  /\ IF MbCanBlock(mstate, mbox)
     THEN /\ mstate' = "blocked"
          /\ Return("awaiting_message")
          /\ UNCHANGED <<iter>>
     ELSE /\ pc' = "loop"
          /\ iter' = IF detached THEN iter ELSE iter + 1
          /\ UNCHANGED <<mstate, pending, pt_pc, resume_result>>
  /\ UNCHANGED <<mbox, first, second, flagVars, localVars, handled_msgs,
                 pt_state, obsVars, histVars, sideVars>>

\* The end of the loop: reset the timeout and test has_next_message().
ResumeLoopExit ==
  /\ pc = "loop" /\ ~InBudget
  /\ \E st \in {reset_timeout_if_needed(Pack, handled_msgs)} : Commit(st)
  /\ IF has_next_message(prio, first, mbox)
     THEN Return("resume_later")
     ELSE pc' = "final_block" /\ UNCHANGED <<pending, pt_pc, resume_result>>
  /\ UNCHANGED <<histVars, sideVars, prio, detached, launched, destroyed, revives, exit_throws, iter, handled_msgs>>

\* mailbox().try_block() after the loop
ResumeFinalBlock ==
  /\ pc = "final_block"
  /\ IF MbCanBlock(mstate, mbox)
     THEN mstate' = "blocked" /\ Return("awaiting_message")
     ELSE mstate' = mstate /\ Return("resume_later")
  /\ UNCHANGED <<mbox, first, second, flagVars, localVars, iter, handled_msgs,
                 pt_state, obsVars, histVars, sideVars>>

\* private_thread::await_resume returns
PtWake ==
  /\ detached /\ pt_pc = "await" /\ pt_state # "await_resume_or_shutdown"
  /\ pt_pc' = IF pt_state = "active" THEN "top" ELSE "exited"
  /\ resume_result' = resume_result
  /\ UNCHANGED <<mailboxVars, flagVars, localVars, pending, pc, iter,
                 handled_msgs, pt_state, obsVars, histVars, sideVars>>

\* on_destroy(): the last reference to the actor is gone.
on_destroy(st) ==
  IF st.cleaned_up THEN st
  ELSE LET s1 == on_exit(st)
       IN IF s1.thrown # "none" THEN s1 ELSE cleanup(s1, "unreachable")

Destroy ==
  /\ launched /\ ~destroyed /\ pc = "idle" /\ pending = 0
  /\ generators = {}
  /\ mstate # "open"
  /\ detached => (pt_pc = "exited" \/ (pt_pc = "await" /\ pt_state # "active"))
  /\ \E st \in {on_destroy(Pack)} : Commit(st)
  /\ destroyed' = TRUE
  /\ UNCHANGED <<histVars, sideVars, prio, detached, launched, revives, exit_throws, pending,
                 pc, iter, handled_msgs, pt_pc, resume_result>>

\* cleanup(reason, host) called on an actor that is already cleaned up
CleanupAgain ==
  /\ cleaned_up /\ ~destructed /\ pc = "idle" /\ cleanup_calls < MaxCleanupCalls
  /\ \E rsn \in {"user", "unreachable"} :
       \E st \in {cleanup(Pack, rsn)} : Commit(st)
  /\ UNCHANGED <<histVars, sideVars, prio, detached, launched, destroyed, revives, exit_throws, pending, pc, iter,
                 handled_msgs, pt_pc, resume_result>>

Next ==
  \/ \E lazy \in BOOLEAN : Launch(lazy)
  \/ Enqueue
  \/ EnqueueResponse
  \/ ResumeBegin
  \/ ResumeIter
  \/ ResumeTryBlock
  \/ ResumeLoopExit
  \/ ResumeFinalBlock
  \/ PtWake
  \/ Destroy
  \/ CleanupAgain

vars == <<actorVars, sideVars>>

Spec == Init /\ [][Next]_vars

\* ------------------------------------- the end of the private thread worker
\* ~local_actor(): runs once the object is unreachable, after on_destroy;
\* private_thread_ is set by the launch of a detached actor.
Destruct ==
  /\ destroyed /\ ~destructed
  /\ destructed' = TRUE
  /\ self_destroyed' = IF detached /\ launched THEN TRUE ELSE self_destroyed
  /\ UNCHANGED <<actorVars, ledgerVars, pullVars, detached_threads>>

\* A variant of await_self_destroyed that does not wait.
await_self_destroyed_nowait(sd) == TRUE

\* private_thread::await_self_destroyed returns once self_destroyed_ is set.
await_self_destroyed(sd) == sd

\* private_thread::exec after run() returned: wait for the destructor of the
\* actor, count the thread out and delete the worker.
PtExit ==
  /\ detached /\ pt_pc = "exited"
  /\ await_self_destroyed(self_destroyed)
  /\ detached_threads' = detached_threads - 1
  /\ pt_pc' = "deleted"
  /\ resume_result' = resume_result
  /\ UNCHANGED <<mailboxVars, flagVars, localVars, pending, pc, iter,
                 handled_msgs, pt_state, obsVars, histVars, ledgerVars,
                 pullVars, self_destroyed, destructed>>

NextThread == Next \/ Destruct \/ PtExit

SpecThread == Init /\ [][NextThread]_vars

\* The state after the constructor of an actor whose on_exit sets a behavior.
InitExit ==
  /\ InitActor /\ revives = TRUE
  /\ InitLedger([max |-> DefaultMaxCredit, low |-> DefaultLowWatermark])
  /\ InitPull

SpecExit == InitExit /\ [][Next]_vars

\* The state after the constructor of an actor whose on_exit throws when it
\* is first called.
InitOnExit ==
  /\ InitObject /\ revives = FALSE /\ exit_throws = TRUE
  /\ InitLedger([max |-> DefaultMaxCredit, low |-> DefaultLowWatermark])
  /\ InitPull

\* The actor runs under its scheduler or private thread.  Its handlers do
\* not throw, so that on_exit is first called inside the try block of
\* resume.
NextOnExit ==
  \/ \E lazy \in BOOLEAN : Launch(lazy)
  \/ Enqueue
  \/ EnqueueResponse
  \/ ResumeBegin
  \/ ResumeIter
  \/ ResumeTryBlock
  \/ ResumeLoopExit
  \/ ResumeFinalBlock
  \/ PtWake

SpecOnExit == InitOnExit /\ [][NextOnExit]_vars

\* ResumeIter is enabled exactly inside the loop of resume, and its steps are
\* the steps of Next inside the loop that take no envelope from a sender.
ResumeIterEnabled == pc = "loop" /\ InBudget

ResumeIterStep == ResumeIterEnabled /\ nextId' = nextId

\* WF_vars(ResumeIter), written out over ResumeIterEnabled and ResumeIterStep.
WeakFairResumeIter ==
  []<>(~ResumeIterEnabled) \/ []<><<ResumeIterStep>>_vars

\* The execution unit eventually runs a submitted actor, a thread inside
\* resume keeps running, and a woken private thread leaves its wait.
Fairness ==
  /\ WF_vars(ResumeBegin) /\ WeakFairResumeIter /\ WF_vars(ResumeTryBlock)
  /\ WF_vars(ResumeLoopExit) /\ WF_vars(ResumeFinalBlock) /\ WF_vars(PtWake)

FairSpec == Spec /\ Fairness

\* ------------------------------------------- the actions of the credit ledger
\* filter_msg handles (sys, addSource) from the live sender a.
AddSource ==
  /\ ~crashed
  /\ \E a \in alive \ exited : \E pos \in 1 .. Len(sources) + 1 :
       /\ \E l \in {add_source(PackLedger, a, pos)} : CommitLedger(l)
       /\ ledger_call' = Log(Call("addSource", 0, a))
  /\ UNCHANGED <<alive, exited, surplus, in_transit, actorVars, pullVars,
                 threadVars>>

\* filter_msg handles (sys, addSource) of an envelope without sender: the
\* error is logged and the envelope is done with.
AddSourceAnonymous ==
  /\ ~crashed
  /\ CommitLedger(PackLedger)
  /\ ledger_call' = Log(Call("addSource", 0, "none"))
  /\ UNCHANGED <<alive, exited, surplus, in_transit, actorVars, pullVars,
                 threadVars>>

\* A source terminates: the functor attached at its registration sends
\* (sys, delSource, a).
SourceExits ==
  /\ ~crashed
  /\ \E a \in Sources \ exited : exited' = exited \cup {a}
  /\ emitted' = <<>>
  /\ ledger_call' = Log(Call("none", 0, "none"))
  /\ UNCHANGED <<open_credit, low_watermark, max_credit, sources, alive,
                 crashed, surplus, allowance, in_transit, actorVars, pullVars,
                 threadVars>>

\* The last strong reference to a terminated source goes away.
SourceExpires ==
  /\ ~crashed
  /\ \E a \in exited \cap alive : in_transit[a] = 0 /\ alive' = alive \ {a}
  /\ emitted' = <<>>
  /\ ledger_call' = Log(Call("none", 0, "none"))
  /\ UNCHANGED <<open_credit, low_watermark, max_credit, sources, exited,
                 crashed, surplus, allowance, in_transit, actorVars, pullVars,
                 threadVars>>

\* filter_msg handles (sys, delSource, a) of a terminated source.
DelSource ==
  /\ ~crashed
  /\ \E a \in exited :
       /\ FindSource(sources, a) # 0
       /\ \E l \in {del_source(PackLedger, alive, a)} : CommitLedger(l)
       /\ ledger_call' = Log(Call("delSource", 0, a))
  /\ UNCHANGED <<alive, exited, surplus, in_transit, actorVars, pullVars,
                 threadVars>>

\* grant_credit(n, cause) for a registered source that holds n or more.
GrantCause ==
  /\ ~crashed
  /\ \E i \in DOMAIN sources : \E n \in 0 .. MaxGrant :
       /\ n <= sources[i].credit
       /\ \E l \in {grant_credit(PackLedger, alive, n, i)} : CommitLedger(l)
       /\ ledger_call' = Log(Call("grant", n, sources[i].addr))
  /\ UNCHANGED <<alive, exited, surplus, in_transit, actorVars, pullVars,
                 threadVars>>

\* grant_credit(n, sources_.end()) called through the public interface.
GrantNone ==
  /\ ~crashed
  /\ \E n \in 0 .. MaxGrant :
       /\ surplus + n <= MaxGrant
       /\ surplus' = surplus + n
       /\ \E l \in {grant_credit(PackLedger, alive, n, 0)} : CommitLedger(l)
       /\ ledger_call' = Log(Call("grant", n, "none"))
  /\ UNCHANGED <<alive, exited, in_transit, actorVars, pullVars, threadVars>>

\* A source that was sent credit uses one unit of it for a flow-controlled
\* envelope to the actor.
SourceEmits ==
  /\ ~crashed /\ allowance # TrackOff
  /\ \E a \in Sources \ exited :
       /\ allowance[a] > 0
       /\ allowance' = [allowance EXCEPT ![a] = @ - 1]
       /\ in_transit' = [in_transit EXCEPT ![a] = @ + 1]
  /\ emitted' = <<>>
  /\ ledger_call' = Log(Call("none", 0, "none"))
  /\ UNCHANGED <<open_credit, low_watermark, max_credit, sources, alive,
                 exited, crashed, surplus, actorVars, pullVars, threadVars>>

\* invoke_message on a flow-controlled envelope of source a, the handler
\* giving result r; a skipped envelope stays with the actor.
FlowInvoke ==
  /\ ~crashed /\ allowance # TrackOff
  /\ \E a \in Sources : \E r \in FlowResults :
       /\ in_transit[a] > 0
       /\ in_transit' = IF r = "skip" THEN in_transit
                        ELSE [in_transit EXCEPT ![a] = @ - 1]
       /\ \E l \in {invoke_flow(PackLedger, alive, a, r)} : CommitLedger(l)
       /\ ledger_call' = Log(Call(r, 1, a))
  /\ UNCHANGED <<alive, exited, surplus, actorVars, pullVars, threadVars>>

InitCredit ==
  /\ InitActor /\ ~prio /\ ~detached /\ revives = FALSE
  /\ \E cfg \in Configs : InitLedger(cfg)
  /\ InitPull

\* The ledger with the log of its operations switched on, under the settings
\* a derived class gives the protected members.
GrantConfigs == Configs \ {[max |-> DefaultMaxCredit, low |-> DefaultLowWatermark]}

InitGrant ==
  /\ InitActor /\ ~prio /\ ~detached /\ revives = FALSE
  /\ \E cfg \in GrantConfigs : InitCounters(cfg)
  /\ ledger_call = Call("none", 0, "none") /\ allowance = TrackOff
  /\ InitPull

NextCredit ==
  \/ AddSource
  \/ AddSourceAnonymous
  \/ SourceExits
  \/ SourceExpires
  \/ DelSource
  \/ GrantCause
  \/ GrantNone

SpecCredit == InitCredit /\ [][NextCredit]_vars

SpecGrant == InitGrant /\ [][NextCredit]_vars

\* The ledger with sources that keep to the protocol: a source sends one
\* flow-controlled envelope per unit of credit it was sent.
InitFlow ==
  /\ InitActor /\ ~prio /\ ~detached /\ revives = FALSE
  /\ \E cfg \in GrantConfigs : InitCounters(cfg)
  /\ ledger_call = Call("none", 0, "none")
  /\ allowance = [a \in Sources |-> 0]
  /\ InitPull

NextFlow ==
  \/ AddSource
  \/ AddSourceAnonymous
  \/ SourceExits
  \/ SourceExpires
  \/ DelSource
  \/ SourceEmits
  \/ FlowInvoke

SpecFlow == InitFlow /\ [][NextFlow]_vars

\* ------------------------------------------------- the actions of the pulls
\* A single producer enqueues an envelope of either priority.
PullEnqueue ==
  /\ nextId <= MaxPullMsgs
  /\ \E hp \in BOOLEAN : EnqueueEnv(Env(nextId, "a", "async", hp, 0, 0))

\* A pull cycle read the mailbox into the first segment.
PullCycle(nm) == prio /\ mbox # <<>> /\ nm.mbox = <<>>

\* One call of next_message.
NextMessage ==
  /\ \E nm \in {next_message(prio, first, mbox)} :
       /\ first' = nm.first /\ mbox' = nm.mbox
       /\ returned' = returned \o nm.ptr
       /\ IF PullCycle(nm)
          THEN /\ cycles' = cycles + 1
               /\ cycle' = cycle @@ [id \in {mbox[i].id : i \in DOMAIN mbox}
                                       |-> cycles + 1]
          ELSE UNCHANGED <<cycles, cycle>>
  /\ UNCHANGED <<mstate, second, flagVars, localVars, schedVars, obsVars,
                 histVars, ledgerVars, threadVars>>

InitPrio == Init /\ ~detached

NextPrio ==
  \/ PullEnqueue
  \/ NextMessage

SpecPrio == InitPrio /\ [][NextPrio]_vars


\* ----------------------------------- the actions of requests and responses
\* The envelopes other actors send to an actor that issues requests.
RespKinds ==
  {[pl |-> "s", mt |-> "async", hp |-> FALSE],
   [pl |-> "r", mt |-> "async", hp |-> FALSE],
   [pl |-> "a", mt |-> "async", hp |-> TRUE]}

\* Another actor sends an envelope that makes the actor issue requests.
RequestEnqueue ==
  /\ launched /\ nextId <= MaxRespMsgs
  /\ \E k \in RespKinds : EnqueueEnv(Env(nextId, k.pl, k.mt, k.hp, 0, 0))

\* A response to a request of this actor arrives: the result of the
\* responder, an error, or the sec::request_timeout error the scheduler
\* delivers for request_sync_timeout_msg.
ResponseArrives ==
  /\ launched /\ nextId <= MaxRespMsgs
  /\ \E r \in 1 .. last_request_id : \E pl \in {"ok", "err"} :
       EnqueueEnv(Env(nextId, pl, "response", FALSE, r, 0))

NextResp ==
  \/ \E lazy \in BOOLEAN : Launch(lazy)
  \/ RequestEnqueue
  \/ ResponseArrives
  \/ ResumeBegin
  \/ ResumeIter
  \/ ResumeTryBlock
  \/ ResumeLoopExit
  \/ ResumeFinalBlock
  \/ PtWake

SpecResp == Init /\ [][NextResp]_vars

\* The envelopes other actors send to an actor that awaits two responses.
AwaitKinds ==
  {[pl |-> "w", mt |-> "async", hp |-> FALSE],
   [pl |-> "a", mt |-> "async", hp |-> FALSE]}

AwaitEnqueue ==
  /\ launched /\ nextId <= MaxRespMsgs
  /\ \E k \in AwaitKinds : EnqueueEnv(Env(nextId, k.pl, k.mt, k.hp, 0, 0))

NextAwait ==
  \/ \E lazy \in BOOLEAN : Launch(lazy)
  \/ AwaitEnqueue
  \/ ResponseArrives
  \/ ResumeBegin
  \/ ResumeIter
  \/ ResumeTryBlock
  \/ ResumeLoopExit
  \/ ResumeFinalBlock
  \/ PtWake

SpecAwait == Init /\ [][NextAwait]_vars

\* ------------------------------------------------- the actions of timeouts
\* The envelopes other actors send to an actor that uses timeouts.
TimeoutKinds ==
  {[pl |-> "t", mt |-> "async", hp |-> FALSE],
   [pl |-> "a", mt |-> "async", hp |-> FALSE],
   [pl |-> "b", mt |-> "async", hp |-> FALSE]}

TimeoutEnqueue ==
  /\ launched /\ nextId <= MaxTimeoutMsgs
  /\ \E k \in TimeoutKinds : EnqueueEnv(Env(nextId, k.pl, k.mt, k.hp, 0, 0))

\* The scheduler's delayed_send delivers the timeout_msg of an earlier
\* request_timeout.
TimerFires ==
  /\ launched /\ nextId <= MaxTimeoutMsgs
  /\ \E tid \in timers :
       /\ EnqueueAt(Env(nextId, "timeout", "async", FALSE, 0, tid))
       /\ timers' = timers \ {tid}
  /\ UNCHANGED <<bhvr_stack, awaited_responses, multiplexed_responses,
                 last_request_id, generators, subscriptions, fail_state,
                 current_element, has_timeout, timeout_id>>

NextTimeout ==
  \/ \E lazy \in BOOLEAN : Launch(lazy)
  \/ TimeoutEnqueue
  \/ TimerFires
  \/ ResumeBegin
  \/ ResumeIter
  \/ ResumeTryBlock
  \/ ResumeLoopExit
  \/ ResumeFinalBlock
  \/ PtWake

SpecTimeout == Init /\ [][NextTimeout]_vars

\* The envelopes other actors send to an actor whose behavior has a timeout
\* and awaits the response to a request.
TimeoutAwaitKinds ==
  {[pl |-> "t", mt |-> "async", hp |-> FALSE],
   [pl |-> "r", mt |-> "async", hp |-> FALSE],
   [pl |-> "a", mt |-> "async", hp |-> FALSE]}

TimeoutAwaitEnqueue ==
  /\ launched /\ nextId <= MaxTimeoutMsgs
  /\ \E k \in TimeoutAwaitKinds :
       EnqueueEnv(Env(nextId, k.pl, k.mt, k.hp, 0, 0))

NextTimeoutAwait ==
  \/ \E lazy \in BOOLEAN : Launch(lazy)
  \/ TimeoutAwaitEnqueue
  \/ TimerFires
  \/ ResponseArrives
  \/ ResumeBegin
  \/ ResumeIter
  \/ ResumeTryBlock
  \/ ResumeLoopExit
  \/ ResumeFinalBlock
  \/ PtWake

SpecTimeoutAwait == Init /\ [][NextTimeoutAwait]_vars

\* --------------------------------------------- quit outside of a handler
\* quit(reason) called while no handler runs: by the constructor of a
\* derived actor before launch, or between two calls of resume.
QuitCalled ==
  /\ pc = "idle" /\ ~terminated /\ ~cleaned_up /\ ~destroyed
  /\ \E st \in {quit(Pack, "user")} : Commit(st)
  /\ UNCHANGED <<histVars, sideVars, prio, detached, launched, destroyed,
                 revives, exit_throws, pending, pc, iter, handled_msgs, pt_pc, resume_result>>

NextEntry ==
  \/ \E lazy \in BOOLEAN : Launch(lazy)
  \/ QuitCalled
  \/ Enqueue
  \/ ResumeBegin
  \/ ResumeIter
  \/ ResumeTryBlock
  \/ ResumeLoopExit
  \/ ResumeFinalBlock
  \/ PtWake

SpecEntry == Init /\ [][NextEntry]_vars

\* --------------------------------- the actions of handlers that skip
\* The envelopes other actors send to an actor with a handler that calls
\* quit and returns skip.
SkipKinds ==
  {[pl |-> "qs", mt |-> "async", hp |-> FALSE],
   [pl |-> "a", mt |-> "request", hp |-> FALSE],
   [pl |-> "b", mt |-> "async", hp |-> FALSE],
   [pl |-> "c", mt |-> "async", hp |-> FALSE]}

SkipEnqueue ==
  /\ launched /\ nextId <= MaxSkipMsgs
  /\ \E k \in SkipKinds : EnqueueEnv(Env(nextId, k.pl, k.mt, k.hp, 0, 0))

NextSkip ==
  \/ \E lazy \in BOOLEAN : Launch(lazy)
  \/ SkipEnqueue
  \/ ResumeBegin
  \/ ResumeIter
  \/ ResumeTryBlock
  \/ ResumeLoopExit
  \/ ResumeFinalBlock
  \/ PtWake

SpecSkip == Init /\ [][NextSkip]_vars

\* ----------------------------------------------- the actions of exceptions
\* The envelopes other actors send to an actor whose handlers may throw.
ExcKinds ==
  {[pl |-> "xa", mt |-> "async", hp |-> FALSE],
   [pl |-> "xs", mt |-> "request", hp |-> FALSE],
   [pl |-> "xq", mt |-> "async", hp |-> TRUE],
   [pl |-> "a", mt |-> "async", hp |-> FALSE],
   [pl |-> "b", mt |-> "request", hp |-> FALSE]}

ExcEnqueue ==
  /\ launched /\ nextId <= MaxExcMsgs
  /\ \E k \in ExcKinds : EnqueueEnv(Env(nextId, k.pl, k.mt, k.hp, 0, 0))

NextExc ==
  \/ \E lazy \in BOOLEAN : Launch(lazy)
  \/ ExcEnqueue
  \/ ResumeBegin
  \/ ResumeIter
  \/ ResumeTryBlock
  \/ ResumeLoopExit
  \/ ResumeFinalBlock
  \/ PtWake

SpecExc == Init /\ [][NextExc]_vars

\* ------------------------------------------ the actions of single events
\* The catch clause of exec_single_event: handle(eptr) returned opt.
CatchSingle(st, opt) ==
  [(IF opt # "none" THEN quit(st, opt) ELSE st) EXCEPT !.thrown = "none"]

\* exec_single_event past the initialization of the actor
SingleEventFrom(st, e, opt) ==
  IF ~has_behavior(st) \/ st.terminated THEN st
  ELSE LET r == exec_event(st, e)
       IN IF r.st.thrown # "none" THEN CatchSingle(r.st, opt) ELSE r.st

\* exec_single_event(ctx, ptr) for the envelope e: make_behavior returns ib
\* if the actor is not initialized, handle(eptr) returns opt if a handler
\* throws.
exec_single_event(st, e, ib, opt) ==
  IF ~st.initialized
  THEN LET f == finished(initialize(st, ib))
       IN IF f.fin THEN f.st ELSE SingleEventFrom(f.st, e, opt)
  ELSE SingleEventFrom(st, e, opt)

\* The owner of the actor hands it one envelope outside of resume.
SingleEvent ==
  /\ pc = "idle" /\ ~detached /\ ~destroyed /\ nextId <= MaxSingleMsgs
  /\ \E k \in ExcKinds : \E ib \in {"B1", "none"} :
       \E opt \in ExceptionHandlerResults :
         \E st \in {exec_single_event(
                       [Pack EXCEPT !.nextId = @ + 1,
                                    !.invoked = @ @@ (nextId :> 0)],
                       Env(nextId, k.pl, k.mt, k.hp, 0, 0), ib, opt)} :
           Commit(st)
  /\ UNCHANGED <<histVars, sideVars, prio, detached, launched, destroyed,
                 revives, exit_throws, pending, pc, iter, handled_msgs, pt_pc,
                 resume_result>>

NextSingle ==
  \/ \E lazy \in BOOLEAN : Launch(lazy)
  \/ SingleEvent
  \/ ExcEnqueue
  \/ ResumeBegin
  \/ ResumeIter
  \/ ResumeTryBlock
  \/ ResumeLoopExit
  \/ ResumeFinalBlock
  \/ PtWake

SpecSingle == Init /\ [][NextSingle]_vars

\* ------------------------------------------- the actions of (sys, get, key)
\* The envelopes other actors send to an actor they ask for meta information.
SysKinds ==
  {[pl |-> "sys_get_info", mt |-> "request", hp |-> FALSE],
   [pl |-> "sys_get_info", mt |-> "async", hp |-> TRUE],
   [pl |-> "sys_get_nope", mt |-> "request", hp |-> FALSE],
   [pl |-> "sys_get_nope", mt |-> "async", hp |-> FALSE],
   [pl |-> "r", mt |-> "async", hp |-> FALSE],
   [pl |-> "a", mt |-> "request", hp |-> FALSE],
   [pl |-> "q", mt |-> "async", hp |-> FALSE]}

SysEnqueue ==
  /\ launched /\ nextId <= MaxSysMsgs
  /\ \E k \in SysKinds : EnqueueEnv(Env(nextId, k.pl, k.mt, k.hp, 0, 0))

NextSys ==
  \/ \E lazy \in BOOLEAN : Launch(lazy)
  \/ SysEnqueue
  \/ ResumeBegin
  \/ ResumeIter
  \/ ResumeTryBlock
  \/ ResumeLoopExit
  \/ ResumeFinalBlock
  \/ PtWake

SpecSys == Init /\ [][NextSys]_vars

\* The envelopes other actors send to an actor that awaits a response: every
\* kind of system message, and the message that makes the actor send a
\* request and await the response.
SysAwaitKinds ==
  {[pl |-> "sys_get_info", mt |-> "request", hp |-> FALSE],
   [pl |-> "sys_add_source", mt |-> "async", hp |-> FALSE],
   [pl |-> "sys_del_source", mt |-> "async", hp |-> FALSE],
   [pl |-> "sys_get_n", mt |-> "async", hp |-> FALSE],
   [pl |-> "exit", mt |-> "async", hp |-> TRUE],
   [pl |-> "down", mt |-> "async", hp |-> FALSE],
   [pl |-> "error", mt |-> "async", hp |-> FALSE],
   [pl |-> "r", mt |-> "async", hp |-> FALSE]}

SysAwaitEnqueue ==
  /\ launched /\ nextId <= MaxSysMsgs
  /\ \E k \in SysAwaitKinds : EnqueueEnv(Env(nextId, k.pl, k.mt, k.hp, 0, 0))

NextSysAwait ==
  \/ \E lazy \in BOOLEAN : Launch(lazy)
  \/ SysAwaitEnqueue
  \/ ResumeBegin
  \/ ResumeIter
  \/ ResumeTryBlock
  \/ ResumeLoopExit
  \/ ResumeFinalBlock
  \/ PtWake

SpecSysAwait == Init /\ [][NextSysAwait]_vars

\* ------------------------------------------------------------- properties
\* Number of places of the mailbox and its cache that hold envelope id.
CountIn(q, id) == Cardinality({i \in DOMAIN q : q[i].id = id})

Occ(id) == CountIn(mbox, id) + CountIn(first, id) + CountIn(second, id)

Running == pc # "idle"

\* C1: at most one thread dispatches the actor: a scheduled actor never has
\* more than one submission pending or running, a private thread is woken
\* only while it waits, a blocked mailbox means nobody runs or is about to,
\* and a submission is added only by launch, by an enqueue that observed
\* unblocked_reader, or by the scheduler re-submitting after resume_later.
C1_Inv ==
  /\ ~detached => pending + (IF Running THEN 1 ELSE 0) <= 1
  /\ (detached /\ pt_state = "active") => pt_pc \in {"top", "await"}
  /\ mstate = "blocked" =>
       (~Running /\ pending = 0 /\ pt_pc \notin {"top", "again", "resume"})

C1_Step ==
  pending' > pending =>
    \/ ~launched /\ launched'
    \/ nextId' = nextId + 1 /\ enq_result' = "unblocked_reader"
    \/ pc \in {"loop", "final_block"} /\ pc' = "idle"

C1_SingleReader == []C1_Inv /\ [][C1_Step]_vars

\* C1 witness: an enqueue found the reader blocked and re-scheduled an actor
\* that had already run.
C1_Witness ==
  /\ ~detached /\ initialized /\ enq_result = "unblocked_reader"
  /\ pending = 1 /\ ~Running /\ mbox # <<>>

\* C3: delivery is at-most-once: until the mailbox is closed every accepted
\* envelope is either held in exactly one place (mailbox, first or second
\* segment) or has been consumed exactly once; no envelope is ever consumed
\* twice, and a consumed envelope is held nowhere.
C3_AtMostOnce ==
  \A id \in DOMAIN invoked :
    /\ invoked[id] <= 1
    /\ Occ(id) + invoked[id] <= 1
    /\ ~cleaned_up => Occ(id) + invoked[id] = 1

\* C3 witness: a skipped envelope sits in the second segment while a later
\* envelope has been consumed.
C3_Witness ==
  /\ second # <<>>
  /\ \E id \in DOMAIN invoked : invoked[id] = 1 /\ id > second[1].id
  /\ \E id \in DOMAIN invoked : invoked[id] = 1 /\ id < second[1].id

\* C4: an enqueue into a closed mailbox answers a request with exactly one
\* error carrying the actor's exit reason, answers nothing for any other
\* envelope, and neither invokes a handler nor schedules the actor.
C4_Step ==
  (nextId' = nextId + 1 /\ mstate = "closed") =>
    /\ enq_result' = "queue_closed"
    /\ bounces' = IF enq_mt' = "request"
                   THEN Append(bounces, [id |-> nextId, reason |-> fail_state])
                   ELSE bounces
    /\ UNCHANGED <<mailboxVars, pending, pc, pt_state, pt_pc, resume_result, replies, localVars>>
    /\ \A id \in DOMAIN invoked : invoked'[id] = invoked[id]
    /\ invoked'[nextId] = 0

C4_ClosedEnqueue == [][C4_Step]_vars

\* C4 witness: a request was refused by the closed mailbox of a terminated
\* actor and answered with its exit reason.
C4_Witness ==
  /\ enq_result = "queue_closed" /\ enq_mt = "request" /\ bounces # <<>>
  /\ bounces[Len(bounces)] = [id |-> nextId - 1, reason |-> "user"]
  /\ fail_state = "user"


\* Envelope id waits to be returned by next_message.
Held(id) == CountIn(mbox, id) + CountIn(first, id) > 0

\* C2: under a fair scheduler every envelope accepted by the mailbox is
\* eventually returned by next_message or drained by cleanup, and no envelope
\* waits in the mailbox or the first segment of an actor whose mailbox is
\* blocked.
C2_NoneStuck == mstate = "blocked" => (mbox = <<>> /\ first = <<>>)

EnvOf(id) ==
  LET all == mbox \o first \o second
  IN all[CHOOSE i \in DOMAIN all : all[i].id = id]

BouncesOf(b, id) == {i \in DOMAIN b : b[i].id = id}

\* C5: once cleanup has returned the mailbox is closed and empty, the
\* response tables, generators and subscriptions are empty and
\* current_element is null; the first cleanup answers every request envelope
\* still held by the mailbox exactly once, with the fail state, and answers
\* no other envelope.
C5_Inv ==
  cleaned_up =>
    /\ mstate = "closed" /\ mbox = <<>> /\ first = <<>> /\ second = <<>>
    /\ awaited_responses = <<>> /\ multiplexed_responses = {}
    /\ generators = {} /\ subscriptions = {} /\ current_element = 0

C5_Step ==
  (~cleaned_up /\ cleaned_up') =>
    \A id \in DOMAIN invoked :
      IF Occ(id) = 1 /\ invoked'[id] = invoked[id] /\ is_request(EnvOf(id))
      THEN /\ Cardinality(BouncesOf(bounces', id)) = 1
           /\ \A i \in BouncesOf(bounces', id) : bounces'[i].reason = fail_state'
      ELSE BouncesOf(bounces', id) = {}

C5_AfterCleanup == []C5_Inv /\ [][C5_Step]_vars

\* C5 witness: cleanup ran once on an actor that had issued a request and
\* opened a stream, and bounced a request that was still in the mailbox.
C5_Witness ==
  /\ cleaned_up /\ cleanup_calls = 1 /\ enq_result # "queue_closed"
  /\ bounces # <<>> /\ last_request_id > 0 /\ unsubscribes = 1

\* C6: a call of cleanup on an actor that is already cleaned up changes
\* nothing: no state of the actor, no further bouncer response, unsubscribe
\* or shutdown signal.
C6_Step ==
  (cleaned_up /\ cleanup_calls' = cleanup_calls + 1) =>
    UNCHANGED <<mailboxVars, flagVars, localVars, schedVars, bounces, replies,
                on_exit_calls, unsubscribes, shutdown_signals>>

C6_SecondCleanupIsNoop == [][C6_Step]_vars


\* Credit in the pool and with the registered sources.
TotalCredit == open_credit + SumCredit(sources)

C8_WatermarkGating ==
  ( /\ ~crashed
    /\ in_flight(PackLedger) <= low_watermark
    /\ \E i \in DOMAIN sources : sources[i].addr \in alive )
  => \A r \in {grant_credit(PackLedger, alive, 0, 0)} :
       /\ ~r.crashed
       /\ \/ /\ r.emitted # <<>>
             /\ \A i \in DOMAIN r.emitted :
                  /\ r.emitted[i].n >= 1
                  /\ FindSource(r.sources, r.emitted[i].to) # 0
          \/ open_credit = 0 /\ r.emitted = <<>>

\* C9: in a priority-aware actor, of the envelopes one pull cycle moved into
\* the first segment, next_message returns every high priority one before
\* every low priority one.
C9_HighBeforeLow ==
  prio => \A i, j \in DOMAIN returned :
            (i < j /\ cycle[returned[i].id] = cycle[returned[j].id])
              => (returned[i].hp \/ ~returned[j].hp)

\* C9 witness: a high priority envelope was returned before a low priority
\* one that had been enqueued earlier and was moved by the same pull cycle.
C9_Witness ==
  /\ prio
  /\ \E i, j \in DOMAIN returned :
       /\ i < j /\ cycle[returned[i].id] = cycle[returned[j].id]
       /\ returned[i].hp /\ ~returned[j].hp /\ returned[i].id > returned[j].id

\* C10: next_message returns the envelopes of equal priority in the order of
\* their enqueue, whether or not the actor is priority-aware, within one pull
\* cycle and across pull cycles.
C10_FifoPerPriority ==
  \A i, j \in DOMAIN returned :
    (i < j /\ returned[i].hp = returned[j].hp)
      => returned[i].id < returned[j].id

\* C10 witness: a priority-aware actor returned two high priority envelopes
\* of one pull cycle, and two low priority envelopes of different pull
\* cycles with a high priority envelope between them.
C10_Witness ==
  /\ prio
  /\ \E i, j \in DOMAIN returned :
       /\ i < j /\ returned[i].hp /\ returned[j].hp
       /\ cycle[returned[i].id] = cycle[returned[j].id]
  /\ \E i, j, k \in DOMAIN returned :
       /\ i < k /\ k < j /\ ~returned[i].hp /\ ~returned[j].hp /\ returned[k].hp
       /\ cycle[returned[i].id] # cycle[returned[j].id]

\* C11 as stated: an envelope a later pull cycle moved into the first segment
\* is never returned before an envelope an earlier pull cycle moved there,
\* whatever their priorities.
C11_NoCrossCycle ==
  prio => \A i, j \in DOMAIN returned :
            i < j => cycle[returned[i].id] <= cycle[returned[j].id]

\* C11: an envelope of a later pull cycle is returned before an envelope of
\* an earlier pull cycle only if it has high priority and the earlier one has
\* low priority: a pull cycle starts only when no high priority envelope is
\* left in the first segment, puts its high priority envelopes in front of
\* the low priority ones still waiting there and its low priority envelopes
\* behind them.
C11_CrossCycleOnlyHighOverLow ==
  prio => \A i, j \in DOMAIN returned :
            (i < j /\ cycle[returned[i].id] > cycle[returned[j].id])
              => (returned[i].hp /\ ~returned[j].hp)

\* C11 witness: a high priority envelope of the second pull cycle was
\* returned before a low priority envelope of the first, and a low priority
\* envelope of the second pull cycle after it.
C11_Witness ==
  /\ prio
  /\ \E i, j, k \in DOMAIN returned :
       /\ i < j /\ j < k
       /\ cycle[returned[i].id] = 2 /\ returned[i].hp
       /\ cycle[returned[j].id] = 1 /\ ~returned[j].hp
       /\ cycle[returned[k].id] = 2 /\ ~returned[k].hp

\* The message ids of the awaited list and of the multiplexed map.
AwaitedIds == {awaited_responses[i][1] : i \in DOMAIN awaited_responses}

MultiplexedIds == {p[1] : p \in multiplexed_responses}

\* C12: no message id is in both awaited_responses and multiplexed_responses,
\* and none is twice in either, so a response id matches at most one pending
\* handler.
C12_DisjointTables ==
  /\ AwaitedIds \cap MultiplexedIds = {}
  /\ Cardinality(AwaitedIds) = Len(awaited_responses)
  /\ Cardinality(MultiplexedIds) = Cardinality(multiplexed_responses)

\* C12 witness: after one response has been handled, an awaited handler and
\* two multiplexed handlers are pending at once.
C12_Witness ==
  /\ awaited_responses # <<>> /\ Cardinality(multiplexed_responses) = 2
  /\ \E i \in DOMAIN fired : fired[i].kind = "response"

\* The positions of fired at which the handler of request r ran.
Firings(r) == {i \in DOMAIN fired : fired[i].kind = "response" /\ fired[i].rid = r}

\* C13: the pending handler of a request runs for at most one response
\* envelope; once it has run its entry is gone from both tables, and every
\* later envelope with the same response id is dropped without a handler.
C13_OneResponsePerHandler ==
  \A r \in 1 .. last_request_id :
    /\ Cardinality(Firings(r)) <= 1
    /\ Firings(r) # {} => r \notin AwaitedIds \cup MultiplexedIds
    /\ \A i \in Firings(r) : \A j \in DOMAIN fired :
         (j > i /\ fired[j].rid = r) => fired[j].kind = "expired_response"

\* C13 witness: the handler of a request ran on the request-timeout error
\* and the result that arrived later was dropped, while the actor lives on.
C13_Witness ==
  /\ ~terminated
  /\ \E i, j \in DOMAIN fired :
       /\ i < j /\ fired[i].rid = fired[j].rid
       /\ fired[i].kind = "response" /\ fired[i].pl = "err"
       /\ fired[j].kind = "expired_response" /\ fired[j].pl = "ok"

\* The envelope the next iteration of the loop of resume takes: <<>> or <<e>>.
Dispatched == next_message(prio, first, mbox).ptr

\* The next iteration of the loop of resume takes the response to a request
\* with a multiplexed handler while the actor awaits another response.
MultiplexedWhileAwaiting ==
  /\ ResumeIterEnabled /\ Dispatched # <<>>
  /\ is_response(Dispatched[1]) /\ Dispatched[1].rid \in MultiplexedIds
  /\ awaited_responses # <<>>

\* The next iteration of the loop of resume takes the awaited response.
AwaitedArrives ==
  /\ ResumeIterEnabled /\ Dispatched # <<>>
  /\ is_response(Dispatched[1]) /\ awaited_responses # <<>>
  /\ Dispatched[1].rid = Head(awaited_responses)[1]

\* The request ids of the handlers run by the step.
FiredNow == {fired'[i].rid : i \in (DOMAIN fired') \ (DOMAIN fired)}

\* C14 as stated: when the response to the multiplexed request r2 is taken
\* while the actor awaits the response to r1, the handler of r2 runs on that
\* arrival and r1 stays pending.
C14_Step_Stated ==
  (MultiplexedWhileAwaiting /\ ResumeIterStep) =>
    /\ Dispatched[1].rid \in FiredNow
    /\ awaited_responses' = awaited_responses

C14_MultiplexedFiresOnArrival == [][C14_Step_Stated]_vars

\* C14: when the response to the multiplexed request r2 is taken while the
\* actor awaits the response to r1, it is skipped into the cache: no handler
\* runs and both entries stay.  When the response to r1 is taken its handler
\* runs first and the awaited entry is removed; if the actor then awaits
\* nothing and lives on, the skipped responses to multiplexed requests are
\* replayed from the cache and their handlers run in the same call of
\* exec_event.
C14_Step ==
  /\ (MultiplexedWhileAwaiting /\ ResumeIterStep) =>
       /\ fired' = fired
       /\ awaited_responses' = awaited_responses
       /\ multiplexed_responses' = multiplexed_responses
       /\ CountIn(second', Dispatched[1].id) = 1
  /\ (AwaitedArrives /\ ResumeIterStep) =>
       /\ Len(fired') > Len(fired)
       /\ fired'[Len(fired) + 1].kind = "response"
       /\ fired'[Len(fired) + 1].id = Dispatched[1].id
       /\ Dispatched[1].rid \notin AwaitedIds'
       /\ (awaited_responses' = <<>> /\ ~terminated') =>
            \A i \in DOMAIN second :
              (is_response(second[i]) /\ second[i].rid \in MultiplexedIds)
                => (second[i].rid \in FiredNow /\ CountIn(second', second[i].id) = 0)

C14_MultiplexedSkippedWhileAwaiting == [][C14_Step]_vars

\* C14 witness: the response to the multiplexed request arrived before the
\* awaited one and its handler ran right after the awaited handler; the
\* actor lives on with both tables empty.
C14_Witness ==
  /\ ~terminated /\ awaited_responses = <<>> /\ multiplexed_responses = {}
  /\ \E i \in DOMAIN fired :
       /\ i + 1 \in DOMAIN fired
       /\ fired[i].kind = "response" /\ fired[i + 1].kind = "response"
       /\ fired[i].rid = 1 /\ fired[i + 1].rid = 2
       /\ fired[i + 1].id < fired[i].id

\* The next iteration of the loop of resume takes a timeout_msg whose id is
\* not the active one, or takes it while has_timeout is false.
ExpiredTimeoutTaken ==
  /\ ResumeIterEnabled /\ Dispatched # <<>>
  /\ Dispatched[1].pl = "timeout"
  /\ ~(has_timeout /\ Dispatched[1].tid = timeout_id)

\* C15: a timeout_msg with another id than the active one, or delivered
\* while has_timeout is false, is dropped without any effect: no handler
\* runs, nothing is sent, and the behavior stack, the response tables,
\* timeout_id, has_timeout and the skip cache stay as they are; the envelope
\* is consumed and the actor goes on.
C15_Step ==
  (ExpiredTimeoutTaken /\ ResumeIterStep) =>
    /\ UNCHANGED <<bhvr_stack, awaited_responses, multiplexed_responses,
                   timeout_id, has_timeout, timers, second, fired, caught,
                   replies, bounces, terminated, fail_state, cleaned_up,
                   on_exit_calls, handled_msgs>>
    /\ first' = next_message(prio, first, mbox).first
    /\ mbox' = next_message(prio, first, mbox).mbox
    /\ invoked'[Dispatched[1].id] = 1
    /\ pc' = "loop"

C15_ExpiredTimeoutDropped == [][C15_Step]_vars

\* C15 witness: the timeout_msg with the id of the last request_timeout was
\* dropped because a message handled before it had cleared has_timeout; the
\* resume that dropped it is still in its loop.
C15_Witness ==
  /\ pc = "loop" /\ ~has_timeout /\ timeout_id = 2 /\ timers = {}
  /\ bhvr_stack = <<"B1", "BT">> /\ fired = <<>>
  /\ mbox = <<>> /\ first = <<>> /\ second = <<>>
  /\ \A id \in DOMAIN invoked : invoked[id] = 1
  /\ nextId = 4

\* The timeout ids of the timeout messages not yet taken by resume.
PendingTimeoutIds ==
  timers \cup {e.tid : e \in {(mbox \o first \o second)[i] :
                                i \in DOMAIN (mbox \o first \o second)}}

\* C16: only the newest timeout is honored.  No timeout message carries a
\* newer id than timeout_id, the id of the last request_timeout; when a
\* timeout handler runs, it runs for the message with that id, and it is the
\* handler of the behavior on top of the stack; a timeout message of an
\* earlier request_timeout runs no handler.
C16_Inv == \A tid \in PendingTimeoutIds : tid <= timeout_id

C16_Step ==
  /\ (fired' # fired /\ fired'[Len(fired')].kind = "timeout") =>
       /\ Len(fired') = Len(fired) + 1
       /\ has_timeout /\ fired'[Len(fired')].tid = timeout_id
       /\ bhvr_stack # <<>>
       /\ fired'[Len(fired')].bhvr = bhvr_stack[Len(bhvr_stack)]
  /\ (ResumeIterEnabled /\ ResumeIterStep /\ Dispatched # <<>>
        /\ Dispatched[1].pl = "timeout" /\ Dispatched[1].tid < timeout_id) =>
       fired' = fired

C16_NewestTimeoutOnly == []C16_Inv /\ [][C16_Step]_vars

\* C16 witness: two behaviors with a timeout were pushed one after the
\* other; the timeout message of the first request was delivered and ran no
\* handler, and the newest one ran the handler of the behavior on top.
C16_Witness ==
  /\ Len(bhvr_stack) = 3 /\ bhvr_stack[3] = "BT2"
  /\ Len(fired) = 1 /\ fired[1].kind = "timeout" /\ fired[1].bhvr = "BT2"
  /\ fired[1].tid >= 6
  /\ 2 \notin PendingTimeoutIds
  /\ \A id \in 1 .. 4 : id \in DOMAIN invoked /\ invoked[id] = 1

\* resume caught an exception in this step and returned done.
CaughtAndDone ==
  /\ Len(caught') = Len(caught) + 1
  /\ terminated' /\ cleaned_up'
  /\ on_exit_calls' = on_exit_calls + 1 /\ cleanup_calls' = cleanup_calls + 1
  /\ pc = "loop" /\ pc' = "idle"
  /\ IF detached THEN pt_pc' = "exited" ELSE pending' = 0

\* C17 as stated: when a handler throws, resume terminates the actor with the
\* reason of actor_exited, with unhandled_exception for any other exception,
\* or with the reason the custom exception handler returned; on_exit and
\* cleanup run and resume returns done.
C17_Step_Stated ==
  caught' # caught =>
    /\ CaughtAndDone
    /\ fail_state' =
         IF caught'[Len(caught')].opt # "none" THEN caught'[Len(caught')].opt
         ELSE CaughtReason(caught'[Len(caught')].exc)

C17_ExceptionTerminates == [][C17_Step_Stated]_vars

\* C17: when a handler throws, resume does not pass the exception on: on_exit
\* and cleanup run and resume returns done.  The fail state is the reason the
\* custom exception handler returned, if it was asked and returned one;
\* otherwise the reason of an earlier quit, if the actor had already
\* terminated when the exception was caught; otherwise the reason of
\* actor_exited, or unhandled_exception for any other exception.
C17_Step ==
  caught' # caught =>
    /\ CaughtAndDone
    /\ fail_state' =
         IF caught'[Len(caught')].opt # "none" THEN caught'[Len(caught')].opt
         ELSE IF caught'[Len(caught')].was_terminated
         THEN caught'[Len(caught')].fail_before
         ELSE CaughtReason(caught'[Len(caught')].exc)

C17_ExceptionTerminatesUnlessQuit == [][C17_Step]_vars

\* C17 witness: a handler called quit and then threw; no custom handler gave
\* a reason, and the actor ended with the reason of quit while a request was
\* still waiting in the skip cache and got bounced.
C17_Witness ==
  /\ cleaned_up /\ Len(caught) = 1
  /\ caught[1].exc = "std_exception" /\ caught[1].opt = "none"
  /\ caught[1].was_terminated /\ fail_state = "user"
  /\ bounces # <<>>

\* C18: after a handler called quit, an actor whose on_exit set a new
\* behavior does not finish: it is not cleaned up and it still has a behavior
\* to process messages with.
C18_RevivedByOnExit ==
  (revives /\ fail_state = "user" /\ on_exit_calls >= 1 /\ ~destroyed)
    => (~cleaned_up /\ bhvr_stack # <<>>)

\* The worker deletes itself in this step.
WorkerDeleted == pt_pc # "deleted" /\ pt_pc' = "deleted"

\* The worker is constructed in this step.
WorkerConstructed == ~launched /\ launched' /\ detached

C19_Inv ==
  detached_threads = IF detached /\ launched /\ pt_pc # "deleted" THEN 1 ELSE 0

C19_Step ==
  /\ WorkerDeleted =>
       /\ pt_pc = "exited" /\ destructed /\ self_destroyed
       /\ detached_threads' = detached_threads - 1
  /\ WorkerConstructed => detached_threads' = detached_threads + 1
  /\ detached_threads' # detached_threads => WorkerDeleted \/ WorkerConstructed
  /\ pt_pc = "deleted" => pt_pc' = "deleted"

\* C19: the worker of a detached actor deletes itself and counts itself out
\* of the detached threads only after its run() returned and the destructor
\* of the actor called notify_self_destroyed; the counter goes up by one when
\* the worker is constructed, down by one when it deletes itself, and changes
\* at no other step.
C19_WorkerOutlivesActor == []C19_Inv /\ [][C19_Step]_vars

\* C19 witness: the worker of a detached actor that terminated by quit has
\* deleted itself and the counter is back at zero.
C19_Witness ==
  /\ detached /\ pt_pc = "deleted" /\ detached_threads = 0
  /\ destructed /\ self_destroyed /\ fail_state = "user"

\* The next iteration of the loop of resume takes an envelope (sys, get, key)
\* that is not a response.
SysGetTaken ==
  /\ ResumeIterEnabled /\ Dispatched # <<>>
  /\ Dispatched[1].pl \in SysGetPayloads /\ ~is_response(Dispatched[1])

\* The answer filter_msg owes to the envelope e.
SysGetAnswer(e) ==
  [id |-> e.id,
   what |-> IF e.pl = "sys_get_info" THEN "ok_info" ELSE "unsupported_sys_key"]

C20_Step ==
  (SysGetTaken /\ ResumeIterStep) =>
    /\ replies' = Append(replies, SysGetAnswer(Dispatched[1]))
    /\ invoked'[Dispatched[1].id] = 1
    /\ UNCHANGED <<fired, caught, handled_msgs, second, awaited_responses,
                   multiplexed_responses, last_request_id, terminated,
                   fail_state, has_timeout, timeout_id>>
    /\ bhvr_stack' = bhvr_stack
    /\ first' = next_message(prio, first, mbox).first
    /\ mbox' = next_message(prio, first, mbox).mbox

\* Every envelope (sys, get, key) ever consumed got exactly one answer, the
\* one its key asks for, and every skipped envelope is another kind.
C20_Inv ==
  /\ \A i \in DOMAIN second : second[i].pl \notin SysGetPayloads
  /\ \A i \in DOMAIN replies :
       replies[i].what \in {"ok_info", "unsupported_sys_key"} =>
         /\ invoked[replies[i].id] = 1
         /\ \A j \in DOMAIN replies : replies[j].id = replies[i].id => j = i

\* C20: an envelope (sys, get, key) with a string key that comes from a
\* sender and carries no response id is answered to its sender under the
\* response id of its id: with (ok, "info", self, name) for the key "info"
\* and with the error unsupported_sys_key for every other key.  It is
\* classified sys_message: it is consumed, never skipped, and no behavior,
\* response handler or timeout handler is invoked for it, also while the
\* actor awaits a response.
C20_SysGetAnswered == []C20_Inv /\ [][C20_Step]_vars

\* C20 witness: an actor that awaits a response has answered a request for
\* "info" and a message with an unknown key.
C20_Witness ==
  /\ awaited_responses # <<>>
  /\ \E i, j \in DOMAIN replies :
       /\ replies[i].what = "ok_info" /\ replies[j].what = "unsupported_sys_key"
       /\ i > 1 \/ j > 1

\* A call of resume starts in this step.
ResumeBeginStep ==
  /\ pc = "idle"
  /\ IF detached
     THEN pt_pc \in {"top", "again"} /\ pt_pc' \in {"resume", "exited"}
     ELSE pending' < pending

\* resume returned done in the step in which it started.
DoneAtOnce ==
  /\ pc' = "idle"
  /\ IF detached THEN pt_pc' = "exited" ELSE pending' = pending - 1

\* Nothing was dequeued and no handler ran.
NothingDispatched ==
  UNCHANGED <<first, second, invoked, fired, caught, replies, handled_msgs,
              awaited_responses, multiplexed_responses, last_request_id>>

\* resume returned without any effect on the actor.
NoEffect ==
  /\ NothingDispatched
  /\ UNCHANGED <<mbox, mstate, initialized, bhvr_stack, on_exit_calls,
                 cleanup_calls, cleaned_up, bounces, fail_state, terminated>>

\* C21 as stated: resume of an actor that is terminated, or initialized
\* without behavior, returns done before initialize is invoked, before any
\* envelope is dequeued and before any handler runs.
C21_Step_Stated ==
  (ResumeBeginStep /\ (terminated \/ (initialized /\ ~has_behavior(Pack))))
    => (DoneAtOnce /\ NoEffect)

C21_DoneAtEntry == [][C21_Step_Stated]_vars

\* C21: resume of an initialized actor that is terminated or has no behavior
\* returns done at once, before any envelope is dequeued and before any
\* handler runs.  Resume of an actor that is terminated but not initialized
\* invokes initialize first; finished() then runs on_exit and cleanup, and
\* resume returns done, again before any envelope is dequeued and before any
\* handler runs.
C21_Step ==
  /\ (ResumeBeginStep /\ initialized /\ (terminated \/ ~has_behavior(Pack)))
       => (DoneAtOnce /\ NoEffect)
  /\ (ResumeBeginStep /\ ~initialized /\ terminated)
       => /\ DoneAtOnce /\ NothingDispatched
          /\ initialized' /\ cleaned_up' /\ bhvr_stack' = <<>>
          /\ on_exit_calls' = on_exit_calls + 1
          /\ cleanup_calls' = cleanup_calls + 1
          /\ fail_state' = fail_state

C21_DoneAtEntryOnceInitialized == [][C21_Step]_vars

\* C21 witness: an actor with an envelope waiting that terminated before its
\* first resume was initialized and cleaned up by that resume, and no
\* envelope was dispatched.
C21_Witness ==
  /\ terminated /\ initialized /\ pc = "idle" /\ fail_state = "user"
  /\ invoked # <<>> /\ \A i \in DOMAIN invoked : invoked[i] = 0
  /\ IF detached THEN pt_pc = "exited" ELSE pending = 0
  /\ cleaned_up /\ on_exit_calls = 1 /\ bounces # <<>>

\* The next iteration of the loop of resume takes an ordinary envelope while
\* the actor awaits a response.
OrdinaryWhileAwaiting ==
  /\ ResumeIterEnabled /\ Dispatched # <<>>
  /\ ~is_response(Dispatched[1]) /\ Dispatched[1].pl \in {"a", "r", "s"}
  /\ awaited_responses # <<>>

C22_Step ==
  (OrdinaryWhileAwaiting /\ ResumeIterStep) =>
    /\ second' = push_to_cache(prio, second, Dispatched[1])
    /\ invoked'[Dispatched[1].id] = 0
    /\ UNCHANGED <<bhvr_stack, awaited_responses, multiplexed_responses,
                   last_request_id, fired, replies, handled_msgs, terminated>>

\* No ordinary envelope that the top behavior takes waits in the cache while
\* no response is awaited.
C22_Inv ==
  (awaited_responses = <<>> /\ bhvr_stack # <<>> /\ ~terminated) =>
    \A i \in DOMAIN second :
      ~is_response(second[i]) =>
        Match(bhvr_stack[Len(bhvr_stack)], second[i].pl) = "skip"

\* C22: an ordinary envelope taken while a response is awaited is delivered
\* to no behavior and put into the cache.  When the awaited response has
\* been handled and the actor then awaits no response and goes on, the
\* cached envelopes are replayed to the top behavior in the same call of
\* exec_event: between two iterations of the loop of resume no ordinary
\* envelope that the top behavior takes is left in the cache.
C22_SkippedThenReplayed == []C22_Inv /\ [][C22_Step]_vars

\* C22 witness: an actor without priorities made a request in its first
\* envelope; the second envelope, taken while the response was awaited, was
\* skipped; the response came third and its handler ran; the replay then
\* delivered the second envelope to the top behavior, whose handler made the
\* second request, while a fourth envelope still waits in the mailbox.
C22_Witness ==
  /\ ~prio /\ nextId = 5 /\ pc = "loop" /\ ~terminated
  /\ Len(fired) = 1 /\ fired[1].kind = "response"
  /\ fired[1].id = 3 /\ fired[1].rid = 1
  /\ invoked[1] = 1 /\ invoked[2] = 1 /\ invoked[4] = 0 /\ second = <<>>
  /\ last_request_id = 2 /\ multiplexed_responses = {}
  /\ Len(awaited_responses) = 1 /\ awaited_responses[1][1] = 2
  /\ \E i \in DOMAIN mbox : mbox[i].id = 4

\* The positions of fired' the step added.
NewFirings == (DOMAIN fired') \ (DOMAIN fired)

\* The handler of the response to r ran in this step, after the handlers of
\* all responses that were awaited when the step began.
FiredAfterAwaited(r) ==
  \E k \in NewFirings :
    /\ fired'[k].kind = "response" /\ fired'[k].rid = r
    /\ \A a \in AwaitedIds :
         \E j \in NewFirings :
           j < k /\ fired'[j].kind = "response" /\ fired'[j].rid = a

C23_Step ==
  /\ (MultiplexedWhileAwaiting /\ ResumeIterStep) =>
       /\ second' = push_to_cache(prio, second, Dispatched[1])
       /\ invoked'[Dispatched[1].id] = 0
       /\ Dispatched[1].rid \in MultiplexedIds'
       /\ Dispatched[1].rid \notin FiredNow
  /\ \A r \in MultiplexedIds :
       /\ (r \notin MultiplexedIds' /\ ~cleaned_up') => FiredAfterAwaited(r)
       /\ r \in FiredNow => (r \notin MultiplexedIds' /\ FiredAfterAwaited(r))

\* A response to a multiplexed request that waits in the cache has not been
\* consumed and its entry is still there.
C23_Inv ==
  \A i \in DOMAIN second :
    (is_response(second[i]) /\ second[i].rid \notin AwaitedIds /\ ~cleaned_up)
      => (second[i].rid \in MultiplexedIds /\ invoked[second[i].id] = 0)

\* C23: the handler of a response whose id is in multiplexed_responses runs,
\* and the entry is erased with it, only while no awaited id is in force: in
\* a step that began with awaited responses only after the handlers of all
\* of them ran.  Taken while an awaited id is in force the response is put
\* into the cache, its entry stays, and it is not consumed.
C23_MultiplexedOnlyWithoutAwaited == []C23_Inv /\ [][C23_Step]_vars

\* C23 witness: the response to the multiplexed request waits in the cache
\* while the awaited response, which arrived later, is still in the mailbox.
C23_Witness ==
  /\ awaited_responses # <<>> /\ multiplexed_responses # {}
  /\ \E i \in DOMAIN second :
       /\ is_response(second[i]) /\ second[i].rid \in MultiplexedIds
       /\ \E j \in DOMAIN mbox :
            is_response(mbox[j]) /\ mbox[j].rid \in AwaitedIds

\* The positions of awaited_responses that hold the id r.
AwaitedAt(r) == {i \in DOMAIN awaited_responses : awaited_responses[i][1] = r}

\* The next iteration of the loop of resume takes the response to an awaited
\* request that is not the current one.
OlderAwaitedArrives ==
  /\ ResumeIterEnabled /\ Dispatched # <<>>
  /\ is_response(Dispatched[1]) /\ Dispatched[1].rid \in AwaitedIds
  /\ Dispatched[1].rid \notin MultiplexedIds
  /\ Dispatched[1].rid # Head(awaited_responses)[1]

\* The handler of the awaited response r ran in this step after the handlers
\* of all entries in front of it.
FiredInTurn(r) ==
  \E k \in NewFirings :
    /\ fired'[k].kind = "response" /\ fired'[k].rid = r
    /\ \A i \in AwaitedAt(r) : \A j \in 1 .. (i - 1) :
         \E l \in NewFirings :
           /\ l < k /\ fired'[l].kind = "response"
           /\ fired'[l].rid = awaited_responses[j][1]

C24_Step ==
  /\ (OlderAwaitedArrives /\ ResumeIterStep) =>
       /\ second' = push_to_cache(prio, second, Dispatched[1])
       /\ invoked'[Dispatched[1].id] = 0
       /\ UNCHANGED <<awaited_responses, fired, bhvr_stack, terminated>>
  /\ (AwaitedArrives /\ ResumeIterStep /\ Dispatched[1].rid \notin MultiplexedIds) =>
       /\ fired'[Len(fired) + 1].kind = "response"
       /\ fired'[Len(fired) + 1].id = Dispatched[1].id
       /\ fired'[Len(fired) + 1].bhvr = Head(awaited_responses)[2]
       /\ invoked'[Dispatched[1].id] = 1
  /\ \A r \in AwaitedIds :
       /\ (r \notin AwaitedIds' /\ ~cleaned_up') => FiredInTurn(r)
       /\ r \in FiredNow => (r \notin AwaitedIds' /\ FiredInTurn(r))

\* The list of awaited responses has the most recently installed entry at
\* its front, and a response to an awaited request that waits in the cache
\* has not been consumed.
C24_Inv ==
  /\ \A i, j \in DOMAIN awaited_responses :
       i < j => awaited_responses[i][1] > awaited_responses[j][1]
  /\ \A i \in DOMAIN second :
       (is_response(second[i]) /\ second[i].rid \in AwaitedIds)
         => invoked[second[i].id] = 0

\* C24: the handler of a response whose id is in awaited_responses runs only
\* when that id is the current awaited id, the front of the list, which is
\* the entry installed last.  The response to an older awaited request is
\* put into the cache and not consumed; its handler runs after the handlers
\* of all entries installed later, so awaited responses are handled in
\* reverse order of installation, and handling removes the entry.
C24_AwaitedLifo == []C24_Inv /\ [][C24_Step]_vars

\* C24 witness: two requests were awaited; the response to the first came
\* before the response to the second, but the handler of the second ran
\* first and the handler of the first right after it, from the cache.
C24_Witness ==
  /\ ~terminated /\ awaited_responses = <<>> /\ Len(fired) = 2
  /\ fired[1].kind = "response" /\ fired[2].kind = "response"
  /\ fired[1].rid = 2 /\ fired[2].rid = 1
  /\ fired[2].id < fired[1].id /\ second = <<>>

\* A call of resume returns in this step.
ResumeReturns == pc' = "idle" /\ (pc # "idle" \/ ResumeBeginStep)

\* An envelope is left in the mailbox or, for a priority-aware actor, in the
\* first segment of the cache.
EnvelopeRemains == mbox # <<>> \/ (prio /\ first # <<>>)

C25_Step ==
  /\ (ResumeReturns /\ resume_result' = "awaiting_message") =>
       /\ pc \in {"try_block", "final_block"}
       /\ mbox = <<>> /\ (prio => first = <<>>)
       /\ mstate = "open" /\ mstate' = "blocked"
       /\ ~detached => pending' = pending
  /\ (pc \in {"try_block", "final_block"} /\ pc' # pc) =>
       IF mbox = <<>>
       THEN pc' = "idle" /\ resume_result' = "awaiting_message"
       ELSE /\ mstate' = mstate
            /\ IF pc = "try_block" THEN pc' = "loop"
               ELSE /\ pc' = "idle" /\ resume_result' = "resume_later"
                    /\ ~detached => pending' = pending + 1
  /\ (pc = "loop" /\ ~InBudget /\ pc' # pc) =>
       IF EnvelopeRemains
       THEN /\ pc' = "idle" /\ resume_result' = "resume_later"
            /\ mstate' = mstate /\ pending' = pending + 1
       ELSE pc' = "final_block"

\* C25: resume returns awaiting_message only from a try_block that
\* succeeded: the mailbox was empty (and, for a priority-aware actor, the
\* first segment of the cache too) and was marked blocked in the same step.
\* When the throughput budget is used up and an envelope remains, or the
\* try_block that follows fails, resume returns resume_later; a failed
\* try_block inside the loop makes resume go around the loop again.
C25_AwaitingOnlyAfterBlock == [][C25_Step]_vars

\* C25 witness: a priority-aware scheduled actor used up its budget with an
\* envelope left in the first segment of its cache, returned resume_later
\* and was submitted again with the mailbox still open.
C25_Witness ==
  /\ prio /\ ~detached /\ pc = "idle" /\ resume_result = "resume_later"
  /\ first # <<>> /\ mbox = <<>> /\ mstate = "open" /\ pending = 1
  /\ iter = MaxThroughput

\* Inside resume, between two calls of exec_event, the actor is not
\* finished.
C26_Inv == pc # "idle" => (~terminated /\ has_behavior(Pack))

\* No envelope is invoked for a terminated actor.
C26_Step == (ResumeIterStep /\ Dispatched # <<>>) => ~terminated

\* C26: after exec_event, whatever the outcome of the invocation, resume
\* returns done if the actor has become finished, and no further envelope is
\* invoked; no handler is invoked after an earlier handler of the same
\* resume called quit.
C26_DoneWhenFinished == []C26_Inv /\ [][C26_Step]_vars

\* The worker's state holds a signal: active or shutdown_requested.
Signalled == pt_state \in {"active", "shutdown_requested"}

\* private_thread::resume() is called in this step: an enqueue found the
\* mailbox blocked.
ResumeSignal == detached /\ nextId' # nextId /\ enq_result' = "unblocked_reader"

\* private_thread::shutdown() is called in this step.
ShutdownSignal == detached /\ shutdown_signals' # shutdown_signals

\* The worker passes the top of its loop in this step: it writes
\* await_resume_or_shutdown and calls the actor's resume.
WorkerWrites == pt_pc = "top" /\ pt_pc' # "top"

C27_Step ==
  /\ ResumeSignal =>
       (pt_state' = "active" /\ pt_pc = "await" /\ pt_pc' = "await")
  /\ ShutdownSignal => pt_state' = "shutdown_requested"
  /\ (detached /\ pt_pc = "await" /\ Signalled) =>
       /\ pt_state' \in {"active", "shutdown_requested"}
       /\ pt_pc' \in {"await", IF pt_state = "active" THEN "top" ELSE "exited"}
  /\ (detached /\ pt_pc = "await" /\ pt_pc' # "await") => Signalled
  /\ (detached /\ pt_state # "await_resume_or_shutdown"
               /\ pt_state' = "await_resume_or_shutdown") => WorkerWrites
  /\ (detached /\ WorkerWrites) =>
       /\ pt_state = "active" /\ mstate # "blocked" /\ pc = "idle"
       /\ pt_state' \in {"await_resume_or_shutdown", "shutdown_requested"}
       /\ pt_state' = "shutdown_requested" => ShutdownSignal
  /\ (detached /\ pt_pc = "top" /\ pt_pc' = "top") =>
       (~ResumeSignal /\ ~ShutdownSignal /\ pt_state' = pt_state)

\* While the worker is on its way from its wait to the call of resume, or
\* inside that call, no enqueue can find the mailbox blocked.
C27_Inv ==
  (detached /\ pt_pc \in {"top", "again", "resume"}) =>
    (mstate # "blocked" /\ (pt_pc = "top" => pt_state = "active"))

\* C27: for a detached actor a resume() or shutdown() signal given after the
\* actor's resume returned awaiting_message is not lost: the state it set
\* stays until the worker reads it, the worker leaves its wait only on a
\* signal, goes to the top of its loop on active and exits on
\* shutdown_requested.  The worker writes await_resume_or_shutdown only at
\* the top of its loop, over the active it was started or woken with, and no
\* signal is given between its wake-up and that write.
C27_SignalNotLost == []C27_Inv /\ [][C27_Step]_vars

\* C27 witness: the actor's resume returned awaiting_message, an enqueue
\* signalled the worker, and the worker has left its wait for the top of its
\* loop with the envelope still in the mailbox.
C27_Witness ==
  /\ detached /\ pt_pc = "top" /\ pt_state = "active"
  /\ resume_result = "awaiting_message" /\ enq_result = "unblocked_reader"
  /\ mbox # <<>> /\ mstate = "open" /\ initialized

\* launch is called in this step.
LaunchStep == ~launched /\ launched'

\* An envelope is enqueued in this step.
EnqueueStep == nextId' # nextId

C28_Step ==
  /\ (LaunchStep /\ ~detached) =>
       /\ pending = 0 /\ mbox' = mbox
       /\ IF mstate' = "blocked" THEN pending' = 0
          ELSE mstate' = mstate /\ pending' = 1
  /\ (EnqueueStep /\ ~detached /\ ~initialized) =>
       IF mstate = "blocked"
       THEN /\ enq_result' = "unblocked_reader" /\ mstate' = "open"
            /\ pending = 0 /\ pending' = 1
       ELSE pending' = pending /\ mstate' = mstate
  /\ (~initialized /\ initialized') =>
       /\ ResumeBeginStep /\ NothingDispatched
       /\ ~detached => pending = 1

\* A launched scheduled actor that is not initialized is submitted once
\* unless its mailbox is blocked (or closed, when it was destroyed before its
\* first message), and none of its envelopes has been dequeued.
C28_Inv ==
  /\ (launched /\ ~detached /\ ~initialized) =>
       pending = IF mstate = "open" THEN 1 ELSE 0
  /\ ~initialized =>
       /\ first = <<>> /\ second = <<>> /\ pc = "idle"
       /\ \A i \in DOMAIN invoked : invoked[i] = 0

\* C28: launch of a scheduled actor with lazy = true that blocks the mailbox
\* does not submit the actor; the first enqueue, which finds the mailbox
\* blocked, submits it, and until the first resume no other enqueue does.
\* With lazy = false launch submits the actor once.  The first resume runs
\* initialize before any envelope is dequeued.
C28_LazyLaunch == []C28_Inv /\ [][C28_Step]_vars

\* C28 witness: a lazily launched scheduled actor was submitted by the first
\* enqueue and waits for its first resume.
C28_Witness ==
  /\ launched /\ ~detached /\ ~initialized /\ pending = 1
  /\ enq_result = "unblocked_reader" /\ Len(mbox) = 1 /\ mstate = "open"

\* The step is grant_credit(n, cause) with cause the i-th registered source, a
\* strong pointer to it can be obtained, and the n it returns is all it held.
CauseRanOut(i, n) ==
  /\ ledger_call' = Call("grant", n, sources[i].addr)
  /\ sources[i].addr \in alive
  /\ sources[i].credit = n

\* in_flight() > low_watermark() once open_credit_ holds the n more.
RaisedAbove(n) == U64(max_credit - U64(open_credit + n)) > low_watermark

\* The i-th source holds all of the raised open credit, one (sys, get) of
\* that amount went to it and to nobody else, and no open credit is left.
ReSeeded(i, n) ==
  /\ ~crashed'
  /\ sources' = [sources EXCEPT ![i].credit = U64(open_credit + n)]
  /\ emitted' = <<[to |-> sources[i].addr, n |-> U64(open_credit + n)]>>
  /\ open_credit' = 0

C29_Step_Stated ==
  \A i \in DOMAIN sources : \A n \in 0 .. MaxGrant :
    (CauseRanOut(i, n) /\ ~RaisedAbove(n)) => ReSeeded(i, n)

\* C29 as stated: in grant_credit(n, cause) with cause a live registered
\* source, if after open_credit += n and cause.credit -= n the cause holds 0
\* and in_flight is not above low_watermark, the cause is re-seeded with all
\* of open_credit, exactly one (sys, get, open_credit) is sent to it,
\* open_credit becomes 0 and no other source is granted anything.
C29_ReseedNotAbove == [][C29_Step_Stated]_vars

C29_Step ==
  \A i \in DOMAIN sources : \A n \in 0 .. MaxGrant :
    (CauseRanOut(i, n) /\ RaisedAbove(n)) => ReSeeded(i, n)

\* C29: in grant_credit(n, cause) with cause a live registered source, if
\* after open_credit += n and cause.credit -= n the cause holds 0 and
\* in_flight is above low_watermark, the cause is re-seeded with all of
\* open_credit, exactly one (sys, get, open_credit) is sent to it,
\* open_credit becomes 0 and no other source is granted anything.
C29_ReseedAbove == [][C29_Step]_vars

\* C29 witness: a source that returned its last credit above the watermark
\* was re-seeded with the 2 that were open, the other live source got nothing.
C29_Witness ==
  /\ ledger_call.op = "grant" /\ ledger_call.cause # "none"
  /\ Len(sources) = 2 /\ exited = {} /\ ~crashed
  /\ emitted = <<[to |-> ledger_call.cause, n |-> 2]>>
  /\ open_credit = 0
  /\ max_credit > low_watermark + 2
  /\ \A i \in DOMAIN sources :
       sources[i].credit =
         IF sources[i].addr = ledger_call.cause THEN 2 ELSE max_credit - 2

\* The sources and the credit grant_credit works on once it is past the
\* cause: the cause gave back n, the open credit holds n more.
AfterReturn(srcs, i, n) ==
  [k \in DOMAIN srcs |->
     IF k = i THEN [srcs[k] EXCEPT !.credit = U64(@ - n)] ELSE srcs[k]]

LiveSources(srcs) == LET live(src) == src.addr \in alive IN SelectSeq(srcs, live)

DeadSources(srcs) ==
  LET dead(src) == src.addr \notin alive IN SelectSeq(srcs, dead)

\* The split of pool over the live sources: per to each of them, one
\* (sys, get, per) to each of them, and the remainder left open.
SplitOver(live, pool, per) ==
  /\ ~crashed'
  /\ sources' = [k \in DOMAIN live |-> [live[k] EXCEPT !.credit = U64(@ + per)]]
  /\ emitted' = [k \in DOMAIN live |-> [to |-> live[k].addr, n |-> per]]
  /\ open_credit' = pool - per * Len(live)

\* grant_credit(n, cause) on the sources srcs reaches the distribution step
\* with a positive credit per live source, and splits the pool.
Distributes(srcs, n) ==
  ( /\ ~RaisedAbove(n)
    /\ LiveSources(srcs) # <<>>
    /\ U64(open_credit + n + SumCredit(DeadSources(srcs)))
         \div Len(LiveSources(srcs)) > 0 )
  => SplitOver(LiveSources(srcs),
               U64(open_credit + n + SumCredit(DeadSources(srcs))),
               U64(open_credit + n + SumCredit(DeadSources(srcs)))
                 \div Len(LiveSources(srcs)))

\* The calls of grant_credit: with a registered cause, without a cause, and
\* from the handling of (sys, delSource) with the credit the source held.
C30_Step ==
  /\ \A i \in DOMAIN sources : \A n \in 0 .. MaxGrant :
       ledger_call' = Call("grant", n, sources[i].addr)
         => Distributes(AfterReturn(sources, i, n), n)
  /\ \A n \in 0 .. MaxGrant :
       ledger_call' = Call("grant", n, "none") => Distributes(sources, n)
  /\ \A i \in DOMAIN sources :
       ledger_call' = Call("delSource", 0, sources[i].addr)
         => Distributes(EraseAt(sources, i), sources[i].credit)

\* C30: when grant_credit reaches the distribution step (in_flight not above
\* low_watermark, at least one live source, per = open_credit div number of
\* live sources > 0), the credit of every live source grows by per, each
\* live source is sent exactly one (sys, get, per), and open_credit is
\* reduced by per times the number of live sources.
C30_SplitAmongLive == [][C30_Step]_vars

\* C30 witness: grant_credit without a cause split an open credit of 3 over
\* two live sources: (sys, get, 1) to each, and 1 left open.
C30_Witness ==
  /\ ledger_call.op = "grant" /\ ledger_call.cause = "none" /\ ~crashed
  /\ Len(sources) = 2 /\ exited = {}
  /\ emitted = [k \in 1 .. 2 |-> [to |-> sources[k].addr, n |-> 1]]
  /\ open_credit = 1
  /\ max_credit - open_credit <= low_watermark

\* The open credit the distribution step of grant_credit(n, cause) divides:
\* the n more and what the expired sources held.
Pool(srcs, n) == U64(open_credit + n + SumCredit(DeadSources(srcs)))

\* The first count live sources got per each and one (sys, get, per) each,
\* the live sources behind them got nothing.
SplitOverFirst(live, pool, count) ==
  /\ pool \div count > 0
  /\ \A c \in count + 1 .. Len(live) : pool \div c = 0
  /\ sources' = [k \in DOMAIN live |->
                   IF k <= count
                   THEN [live[k] EXCEPT !.credit = U64(@ + pool \div count)]
                   ELSE live[k]]
  /\ emitted' = [k \in 1 .. count |->
                   [to |-> live[k].addr, n |-> pool \div count]]
  /\ open_credit' = pool - (pool \div count) * count

\* grant_credit(n, cause) on the sources srcs reaches the distribution step
\* with less open credit than live sources.
DropsFromTail(srcs, n) ==
  ( /\ ~RaisedAbove(n)
    /\ LiveSources(srcs) # <<>>
    /\ Pool(srcs, n) \div Len(LiveSources(srcs)) = 0 )
  => /\ ~crashed'
     /\ \E count \in 1 .. Len(LiveSources(srcs)) :
          SplitOverFirst(LiveSources(srcs), Pool(srcs, n), count)

C31_Step ==
  /\ \A i \in DOMAIN sources : \A n \in 0 .. MaxGrant :
       ledger_call' = Call("grant", n, sources[i].addr)
         => DropsFromTail(AfterReturn(sources, i, n), n)
  /\ \A n \in 0 .. MaxGrant :
       ledger_call' = Call("grant", n, "none") => DropsFromTail(sources, n)
  /\ \A i \in DOMAIN sources :
       ledger_call' = Call("delSource", 0, sources[i].addr)
         => DropsFromTail(EraseAt(sources, i), sources[i].credit)

\* C31: when grant_credit reaches the distribution step with less open
\* credit than live sources, it drops sources from the tail of the candidate
\* list until the credit per source is positive: it ends with at least one
\* remaining source and never divides by zero, also when open_credit is 0,
\* and only the remaining sources are granted credit and sent (sys, get).
C31_TailDropTerminates == [][C31_Step]_vars

\* The sender a is registered with the open credit, every other entry is as
\* it was, no open credit is left, and a was sent (sys, get, credit) iff the
\* credit is positive.
Registered(a) ==
  /\ Len(sources') = Len(sources) + 1
  /\ FindSource(sources', a) # 0
  /\ sources'[FindSource(sources', a)].credit = open_credit
  /\ \A i \in DOMAIN sources :
       /\ FindSource(sources', sources[i].addr) # 0
       /\ sources'[FindSource(sources', sources[i].addr)] = sources[i]
  /\ open_credit' = 0
  /\ emitted' = IF open_credit > 0
                THEN <<[to |-> a, n |-> open_credit]>> ELSE <<>>

NothingRegistered ==
  sources' = sources /\ open_credit' = open_credit /\ emitted' = <<>>

C32_Step ==
  \A a \in Sources \cup {"none"} :
    ledger_call' = Call("addSource", 0, a)
      => IF a # "none" /\ FindSource(sources, a) = 0
         THEN Registered(a) ELSE NothingRegistered

FlowHandled(a, r) ==
  ledger_call' = Call(r, 1, a) /\ FindSource(sources, a) # 0

\* What one call grant_credit(1, cause) leaves, cause the entry of a.
GrantedOne(a) ==
  \E l \in {grant_credit(PackLedger, alive, 1, FindSource(sources, a))} :
    /\ sources' = l.sources /\ open_credit' = l.open_credit
    /\ emitted' = l.emitted /\ crashed' = l.crashed

C33_Step ==
  \A a \in Sources :
    /\ FlowHandled(a, "empty") => GrantedOne(a)
    /\ \A r \in {"message", "error"} :
         FlowHandled(a, r)
           => /\ sources' = sources /\ open_credit' = open_credit
              /\ emitted' = <<>> /\ ~crashed'

\* C33: for a flow-controlled envelope from a registered source, a handler
\* result that is an empty message leads to exactly one grant_credit(1, that
\* source); a non-empty message or an error grants no credit, sends nothing
\* to the source, and leaves open_credit and the credit of every source
\* unchanged.
C33_FlowVisitor == [][C33_Step]_vars

\* C33 witness: the handler gave an empty message for the envelope of a
\* source, whose unit of credit went back to the open credit.
C33_Witness ==
  /\ ledger_call.op = "empty" /\ ~crashed
  /\ FindSource(sources, ledger_call.cause) # 0
  /\ open_credit = 1 /\ emitted = <<>>
  /\ sources[FindSource(sources, ledger_call.cause)].credit = max_credit - 1
  /\ max_credit - open_credit > low_watermark

\* The ledger holds for every registered source at least the credit the
\* source can still come back with: what it was sent and has not used, and
\* its envelopes that are not handled yet.
C35_Inv ==
  allowance # TrackOff
    => \A i \in DOMAIN sources :
         /\ sources[i].credit >=
              allowance[sources[i].addr] + in_transit[sources[i].addr]
         /\ sources[i].credit <= max_credit

C35_Step ==
  \A a \in Sources :
    FlowHandled(a, "empty") => sources[FindSource(sources, a)].credit >= 1

\* C35: with sources that send flow-controlled envelopes only for credit
\* they were sent by (sys, get, k), at most k per grant, the credit of a
\* source never underflows: whenever grant_credit(n, cause) is called for a
\* registered source, the source holds n or more before the subtraction,
\* also a source that was registered while open_credit was 0.
C35_NoUnderflow == []C35_Inv /\ [][C35_Step]_vars

\* C35 witness: with two registered sources, the last envelope a source
\* could send was handled and took the last unit of credit it held, and the
\* source was re-seeded with the open credit.
C35_Witness ==
  /\ ledger_call.op = "empty" /\ ~crashed /\ Len(sources) = 2
  /\ FindSource(sources, ledger_call.cause) # 0
  /\ emitted = <<[to |-> ledger_call.cause,
                  n |-> sources[FindSource(sources, ledger_call.cause)].credit]>>
  /\ allowance[ledger_call.cause] =
       sources[FindSource(sources, ledger_call.cause)].credit
  /\ in_transit[ledger_call.cause] = 0
  /\ open_credit = 0

\* C34: in every state in which no handler is executing, between two calls
\* of exec_event and after resume or exec_single_event returned,
\* current_element is null, also after a handler threw an exception or
\* returned skip.
C34_NoCurrentElement == current_element = 0

\* The ids of the timeout_msg that request_timeout(d) sends in state st: to
\* the mailbox for a zero duration, to the scheduler's timers otherwise.
SentTimeoutIds(st, d) ==
  IF d = "zero"
  THEN {request_timeout(st, d).mbox[i].tid :
          i \in Len(st.mbox) + 1 .. Len(request_timeout(st, d).mbox)}
  ELSE request_timeout(st, d).timers \ st.timers

\* C36: for a valid duration d, the id request_timeout(d) returns, the id of
\* the timeout_msg it sends and the id stored as active are equal: right
\* after the call is_active_timeout(returned id) holds and
\* reset_timeout(returned id) clears has_timeout.
C36_ReturnedIdActive ==
  \A d \in {"zero", "delayed"} :
    /\ SentTimeoutIds(Pack, d) = {request_timeout_result(Pack, d)}
    /\ is_active_timeout(request_timeout(Pack, d),
                         request_timeout_result(Pack, d))
    /\ ~reset_timeout(request_timeout(Pack, d),
                      request_timeout_result(Pack, d)).has_timeout

\* The next iteration of the loop of resume takes the timeout_msg with the
\* active id while the response to a request is awaited.
ActiveTimeoutWhileAwaiting ==
  /\ ResumeIterEnabled /\ Dispatched # <<>>
  /\ Dispatched[1].pl = "timeout"
  /\ has_timeout /\ Dispatched[1].tid = timeout_id
  /\ awaited_responses # <<>>

\* The number of timeout messages with id tid that are still to be taken.
PendingTimeouts(tid) ==
  (IF tid \in timers THEN 1 ELSE 0)
  + Cardinality({i \in DOMAIN (mbox \o first \o second) :
                   (mbox \o first \o second)[i].tid = tid})

C37_Step ==
  /\ (ActiveTimeoutWhileAwaiting /\ ResumeIterStep) =>
       /\ fired' = fired
       /\ has_timeout' /\ timeout_id' = timeout_id
       /\ second' = second
       /\ invoked'[Dispatched[1].id] = 1
       /\ Dispatched[1].tid \notin PendingTimeoutIds'
  /\ \A tid \in (PendingTimeoutIds' \ PendingTimeoutIds) \ {0} :
       tid > timeout_id

\* The envelopes that are no timeout_msg carry the id 0.
C37_Inv == \A tid \in PendingTimeoutIds \ {0} : PendingTimeouts(tid) = 1

\* C37: a timeout_msg with the active timeout id that is dequeued while an
\* awaited response id is in force is dropped and not put into the cache:
\* the timeout handler of the behavior does not run for it, has_timeout
\* stays true, and no timeout_msg with that id is delivered afterwards
\* (there is one message per id, and new messages have new ids).
C37_TimeoutDroppedWhileAwaiting == []C37_Inv /\ [][C37_Step]_vars

\* C37 witness: the timeout of the behavior fired while the response was
\* awaited; its message was taken and dropped, the timeout is still marked
\* active and no handler ran for it.
C37_Witness ==
  /\ awaited_responses # <<>> /\ has_timeout /\ timeout_id = 4
  /\ bhvr_stack = <<"B1", "BT">>
  /\ 4 \notin PendingTimeoutIds /\ timers = {}
  /\ fired = <<>> /\ second = <<>>
  /\ \A id \in 1 .. 3 : id \in DOMAIN invoked /\ invoked[id] = 1

\* The class filter_msg gives a timeout_msg with id tid that arrives in
\* state st.
TimeoutClass(st, tid) ==
  filter_msg(st, Env(0, "timeout", "async", FALSE, 0, tid)).type

\* The next iteration of the loop of resume hands an ordinary envelope to
\* the behavior on top of the stack, and the behavior's answer is m.
OrdinaryInvoked(m) ==
  /\ ResumeIterEnabled /\ Dispatched # <<>>
  /\ filter_msg(Pack, Dispatched[1]).type = "ordinary"
  /\ awaited_response_id(Pack) = 0
  /\ Match(CurrentBhvr(Pack), Dispatched[1].pl) = m

C38_Step ==
  /\ (OrdinaryInvoked("match") /\ has_timeout /\ ResumeIterStep) =>
       /\ ~(has_timeout' /\ timeout_id' = timeout_id)
       /\ TimeoutClass(Pack', timeout_id) = "expired_timeout"
  /\ ((OrdinaryInvoked("skip") \/ OrdinaryInvoked("no_match")) /\ ResumeIterStep) =>
       /\ has_timeout' = has_timeout /\ timeout_id' = timeout_id
       /\ has_timeout => TimeoutClass(Pack', timeout_id) = "timeout"

\* C38: when the behavior matches an ordinary envelope, the timeout that was
\* active before the invocation is no longer active after it, so that its
\* timeout_msg is classified as expired; when the invocation ends in skip or
\* no_match, has_timeout and timeout_id are what they were before, and an
\* active timeout is still classified as active.
C38_TimeoutAcrossInvocation == [][C38_Step]_vars

\* C38 witness: the behavior with a timeout matched an envelope before its
\* timer fired; the timeout is off and its message is still to come.
C38_Witness ==
  /\ pc = "loop" /\ bhvr_stack = <<"B1", "BT">>
  /\ ~has_timeout /\ timeout_id = 2 /\ timers = {2}
  /\ mbox = <<>> /\ first = <<>> /\ second = <<>>
  /\ \A id \in 1 .. 2 : id \in DOMAIN invoked /\ invoked[id] = 1

\* C39: on_exit is called at most once per actor, and exactly once before
\* cleanup has been called, whichever way the actor ends: quit in a handler,
\* no behavior left, an exception (also one that on_exit throws), or
\* destruction of an actor that did not terminate.
C39_OnExitOnceBeforeCleanup ==
  /\ on_exit_calls <= 1
  /\ cleanup_calls >= 1 => on_exit_calls = 1

\* The payloads filter_msg classifies as sys_message in an envelope that
\* carries no response id.
SysPayloads ==
  SysGetPayloads \cup LedgerPayloads \cup {"kill", "exit", "down", "error"}

\* The next iteration of the loop of resume takes a system message.
SysTaken ==
  /\ ResumeIterEnabled /\ Dispatched # <<>>
  /\ Dispatched[1].pl \in SysPayloads /\ ~is_response(Dispatched[1])

\* The number of times the side effect of the system message id has
\* happened: its reply, or the call of its ledger operation or down handler.
SysEffects(id) ==
  Cardinality({i \in DOMAIN replies : replies[i].id = id})
  + Cardinality({i \in DOMAIN fired : fired[i].id = id})

\* The reason the exit handler and the error handler quit with.
SysQuitReason(pl) == IF pl = "error" THEN "error" ELSE pl

C40_Step ==
  (SysTaken /\ ResumeIterStep) =>
    /\ invoked'[Dispatched[1].id] = 1
    /\ \A i \in DOMAIN second' : second'[i].id # Dispatched[1].id
    /\ \A i \in DOMAIN (mbox' \o first') :
         (mbox' \o first')[i].id # Dispatched[1].id
    /\ IF Dispatched[1].pl \in {"kill", "exit", "error"}
       THEN /\ terminated' /\ fail_state' = SysQuitReason(Dispatched[1].pl)
            /\ replies' = replies /\ fired' = fired
       ELSE /\ Len(replies') + Len(fired') = Len(replies) + Len(fired) + 1
            /\ terminated' = terminated

\* No system message is in the cache, and the side effect of a system message
\* has happened as often as the message was taken: not at all or once.
C40_Inv ==
  /\ \A i \in DOMAIN second :
       second[i].pl \in SysPayloads => is_response(second[i])
  /\ \A i \in DOMAIN (mbox \o first) :
       LET e == (mbox \o first)[i]
       IN (e.pl \in SysPayloads /\ ~is_response(e)) =>
            invoked[e.id] = 0 /\ SysEffects(e.id) = 0
  /\ \A id \in DOMAIN invoked : invoked[id] <= 1 /\ SysEffects(id) <= invoked[id]

\* C40: an envelope with a system message, (sys, get, key), (sys, addSource),
\* (sys, delSource, addr), (sys, get, n), exit_msg, down_msg or error, that
\* carries no response id is processed when it is first taken from the
\* mailbox, whether or not a response is awaited: it is consumed and never put
\* into the cache, and its side effect (the reply, the ledger operation, the
\* call of the exit, down or error handler) happens exactly once.
C40_SysMessagesOnce == []C40_Inv /\ [][C40_Step]_vars

\* C40 witness: the actor awaits a response; it has registered a source and
\* called the down handler for the two messages that came after the request,
\* and its cache is empty.
C40_Witness ==
  /\ awaited_responses # <<>> /\ second = <<>> /\ ~terminated
  /\ Len(fired) = 2
  /\ fired[1].pl = "sys_add_source" /\ fired[1].id = 2
  /\ fired[2].kind = "down" /\ fired[2].id = 3
  /\ invoked[2] = 1 /\ invoked[3] = 1


====
